---- MODULE Spec2Model ----
(***************************************************************************)
(* State-machine model of the pcap / pcap-ng reader (ts::PcapFile) and of  *)
(* the packet filter built on it (ts::PcapFilter).                         *)
(*                                                                         *)
(* The input stream is produced on the fly: each time the reader is at a   *)
(* block boundary the environment hands it the next block of the file as   *)
(* a sequence of bytes (or the end of the file).  Bytes are integers       *)
(* 0..255, offsets are zero-based as in the C++ code.                      *)
(***************************************************************************)
EXTENDS Integers, Sequences, FiniteSets, TLC

(***************************************************************************)
(* Bounds of the model.                                                    *)
(***************************************************************************)
\* Number of blocks / records a file may hold after its header.
MaxBlocks == 3
\* Number of open() calls in one behaviour.
MaxOpens == 2

(***************************************************************************)
(* Constants of tsPcap.h, tsIPProtocols.h and tsIPUtils.h.                 *)
(* 32-bit magic numbers are kept as the four bytes read from the file, in  *)
(* file order (the code reads them big-endian).                            *)
(***************************************************************************)
PCAP_MAGIC_BE == <<161, 178, 195, 212>>          \* 0xA1B2C3D4
PCAP_MAGIC_LE == <<212, 195, 178, 161>>          \* 0xD4C3B2A1
PCAPNS_MAGIC_BE == <<161, 178, 60, 77>>          \* 0xA1B23C4D
PCAPNS_MAGIC_LE == <<77, 195, 178, 161>>         \* 0x4DC3B2A1
PCAPNG_MAGIC == <<10, 13, 13, 10>>               \* 0x0A0D0D0A
PCAPNG_ORDER_BE == <<26, 43, 60, 77>>            \* 0x1A2B3C4D
PCAPNG_ORDER_LE == <<77, 60, 43, 26>>            \* 0x4D3C2B1A

PCAPNG_SECTION_HEADER == 168627466               \* 0x0A0D0D0A
PCAPNG_INTERFACE_DESC == 1
PCAPNG_OBSOLETE_PACKET == 2
PCAPNG_SIMPLE_PACKET == 3
PCAPNG_ENHANCED_PACKET == 6

PCAPNG_IF_TSRESOL == 9
PCAPNG_IF_FCSLEN == 13
PCAPNG_IF_TSOFFSET == 14

LINKTYPE_NULL == 0
LINKTYPE_ETHERNET == 1
LINKTYPE_RAW == 101
LINKTYPE_LOOP == 108
LINKTYPE_UNKNOWN == 65535

PCAPNG_BSD_UNKNOWN == 0
PCAPNG_BSD_IPv4 == 2
PCAPNG_BSD_IPv6_24 == 24
PCAPNG_BSD_IPv6_28 == 28
PCAPNG_BSD_IPv6_30 == 30

ETHER_HEADER_SIZE == 14
ETHER_TYPE_OFFSET == 12
ETHERTYPE_IPv4 == 2048                           \* 0x0800
ETHERTYPE_IPv6 == 34525                          \* 0x86DD
ETHERTYPE_802_1Q == 33024                        \* 0x8100
ETHERTYPE_802_1AD == 34984                       \* 0x88A8
ETHERTYPE_802_1AH == 35047                       \* 0x88E7
ETHERTYPE_ARP == 2054                            \* 0x0806, a non-IP payload
ETHERTYPE_NULL == 65535

IPv4_VERSION == 4
IPv6_VERSION == 6
IP_SUBPROTO_ICMP == 1
IP_SUBPROTO_TCP == 6
IP_SUBPROTO_UDP == 17

\* std::micro::den and std::nano::den
MicroDen == 1000000
NanoDen == 1000000000

\* cn::microseconds(-1): "no timestamp".
NoTimestamp == -1
\* Stand-in for std::numeric_limits<size_t>::max() and cn::microseconds::max():
\* larger than every packet number and every timestamp of the model.
MaxValue == 2000000000

(***************************************************************************)
(* Byte access (tsMemory.h) and the endian-aware readers of PcapFile.      *)
(***************************************************************************)
GetUInt16BE(s, o) == s[o + 1] * 256 + s[o + 2]

GetUInt16LE(s, o) == s[o + 2] * 256 + s[o + 1]

GetUInt24BE(s, o) == (s[o + 1] * 256 + s[o + 2]) * 256 + s[o + 3]

GetUInt32BE(s, o) == ((s[o + 1] * 256 + s[o + 2]) * 256 + s[o + 3]) * 256 + s[o + 4]

GetUInt32LE(s, o) == ((s[o + 4] * 256 + s[o + 3]) * 256 + s[o + 2]) * 256 + s[o + 1]

get16(bigend, s, o) == IF bigend THEN GetUInt16BE(s, o) ELSE GetUInt16LE(s, o)

get32(bigend, s, o) == IF bigend THEN GetUInt32BE(s, o) ELSE GetUInt32LE(s, o)

\* Bytes o .. o+n-1 of s (zero-based offset).
Slice(s, o, n) == SubSeq(s, o + 1, o + n)

Min(a, b) == IF a < b THEN a ELSE b

round_up4(n) == ((n + 3) \div 4) * 4

(***************************************************************************)
(* IP datagrams, socket addresses and VLAN stacks (tsIPPacket.h,           *)
(* tsIPSocketAddress.h, tsVLANIdStack.h).                                  *)
(***************************************************************************)
\* An unset address or port.
AnyAddress == 0
AnyPort == 0

SocketAddress(a, p) == [addr |-> a, port |-> p]

AnySocketAddress == SocketAddress(AnyAddress, AnyPort)

hasAddress(sa) == sa.addr # AnyAddress

hasPort(sa) == sa.port # AnyPort

\* IPSocketAddress::match: an unset address or port matches anything.
SockMatch(a, b) ==
    /\ (a.addr = AnyAddress \/ b.addr = AnyAddress \/ a.addr = b.addr)
    /\ (a.port = AnyPort \/ b.port = AnyPort \/ a.port = b.port)

\* The cleared IPPacket.
NoPacket == [valid |-> FALSE, protocol |-> 0, source |-> AnySocketAddress,
             destination |-> AnySocketAddress, size |-> 0]

\* IPPacket::reset(data, size): decode an IPv4 datagram with a 20-byte header.
\* TCP and UDP datagrams carry their ports in the first four payload bytes.
IPPacketReset(d) ==
    IF /\ Len(d) >= 20
       /\ d[1] = 69                                \* version 4, header of 5 words
       /\ GetUInt16BE(d, 2) = Len(d)               \* total length
       /\ (d[10] \in {IP_SUBPROTO_TCP, IP_SUBPROTO_UDP} => Len(d) >= 28)
    THEN LET withPorts == d[10] \in {IP_SUBPROTO_TCP, IP_SUBPROTO_UDP}
         IN [valid |-> TRUE,
             protocol |-> d[10],
             source |-> SocketAddress(GetUInt32BE(d, 12),
                                      IF withPorts THEN GetUInt16BE(d, 20) ELSE AnyPort),
             destination |-> SocketAddress(GetUInt32BE(d, 16),
                                           IF withPorts THEN GetUInt16BE(d, 22) ELSE AnyPort),
             size |-> Len(d)]
    ELSE NoPacket

\* One entry of a VLAN stack.
VLANId(t, i) == [type |-> t, id |-> i]

\* VLANIdStack::match: the expected ids are found in order, each at or after
\* the cursor left by the previous one (outer to inner).
RECURSIVE VlanMatchFrom(_, _, _)
VlanMatchFrom(stack, expected, cursor) ==
    IF expected = << >> THEN TRUE
    ELSE LET hits == {i \in cursor .. Len(stack) : stack[i].id = Head(expected).id}
         IN IF hits = {} THEN FALSE
            ELSE VlanMatchFrom(stack, Tail(expected),
                               (CHOOSE i \in hits : \A j \in hits : i <= j) + 1)

VlanMatch(stack, expected) == VlanMatchFrom(stack, expected, 1)

(***************************************************************************)
(* Writers of input bytes: what a capture tool puts in the file.           *)
(***************************************************************************)
Zeros(n) == [i \in 1 .. n |-> 0]

Put16BE(v) == <<v \div 256, v % 256>>

Put16(bigend, v) == IF bigend THEN Put16BE(v) ELSE <<v % 256, v \div 256>>

Put32BE(v) == <<v \div 16777216, (v \div 65536) % 256, (v \div 256) % 256, v % 256>>

Put32(bigend, v) ==
    IF bigend THEN Put32BE(v)
    ELSE <<v % 256, (v \div 256) % 256, (v \div 65536) % 256, v \div 16777216>>

Pad4(s) == s \o Zeros(round_up4(Len(s)) - Len(s))

\* 10.0.0.h
Host(h) == 167772160 + h

\* An IPv4 datagram of 28 bytes: 20-byte header and 8 bytes of payload.
IPv4Datagram(proto, src, sport, dst, dport) ==
    <<69, 0>> \o Put16BE(28) \o Zeros(4) \o <<64, proto>> \o Zeros(2)
        \o Put32BE(src) \o Put32BE(dst)
        \o Put16BE(sport) \o Put16BE(dport) \o Zeros(4)

\* An Ethernet frame: two MAC addresses, the EtherType, the payload.
EtherFrame(ethertype, payload) == Zeros(12) \o Put16BE(ethertype) \o payload

\* An 802.1Q / 802.1ad tag: VLAN id, next EtherType.
VlanTag(id, next) == Put16BE(id) \o Put16BE(next)

\* An 802.1ah tag: flags, 24-bit service id, two customer MAC addresses, next
\* EtherType.
MimTag(sid, next) ==
    <<0, sid \div 65536, (sid \div 256) % 256, sid % 256>> \o Zeros(12) \o Put16BE(next)

(***************************************************************************)
(* PcapFile: interface descriptions and block parsing.                     *)
(***************************************************************************)
\* A default-constructed InterfaceDesc.
InterfaceDesc == [link_type |-> LINKTYPE_UNKNOWN, fcs_size |-> 0,
                  time_units |-> 0, time_offset |-> 0]

\* get64 of PcapFile, taken as the signed value the code casts it to.
\* The eight bytes are put in big-endian order first.
Signed64(b) ==
    IF b[1] < 128
    THEN GetUInt32BE(b, 0) * 65536 * 65536 + GetUInt32BE(b, 4)
    ELSE -(GetUInt32BE([i \in 1 .. 4 |-> 255 - b[i]], 0) * 65536 * 65536
           + GetUInt32BE([i \in 1 .. 4 |-> 255 - b[i + 4]], 0) + 1)

get64(bigend, s, o) ==
    Signed64(IF bigend THEN Slice(s, o, 8) ELSE [i \in 1 .. 8 |-> s[o + 9 - i]])

RECURSIVE Power10(_)
Power10(n) == IF n = 0 THEN 1 ELSE 10 * Power10(n - 1)

RECURSIVE Power2(_)
Power2(n) == IF n = 0 THEN 1 ELSE 2 * Power2(n - 1)

\* readHeader, pcap case: the 20 bytes that follow the magic; old is the
\* first interface that _if.resize(1) keeps, or a default one.
\* The byte order taken from the time unit of the magic.
PcapBigEndianOfMicro(magic) == magic = PCAP_MAGIC_BE \/ magic = PCAP_MAGIC_LE

PcapBigEndian(magic) == magic = PCAP_MAGIC_BE \/ magic = PCAPNS_MAGIC_BE

ReadPcapHeader(magic, header, old) ==
    [be |-> PcapBigEndian(magic),
     major |-> get16(PcapBigEndian(magic), header, 0),
     minor |-> get16(PcapBigEndian(magic), header, 2),
     ifd |-> [old EXCEPT
                 !.link_type = get16(PcapBigEndian(magic), header, 18),
                 !.time_units = IF magic = PCAP_MAGIC_BE \/ magic = PCAP_MAGIC_LE
                                THEN MicroDen ELSE NanoDen,
                 !.fcs_size = IF (header[17] \div 16) % 2 = 0 THEN 0
                              ELSE 2 * ((header[17] \div 32) % 8)]]

\* readNgBlockBody: s holds the bytes of the file that follow the block type,
\* up to the end of the block.  The result tells whether the block was read
\* (ok), whether the end of the file was hit (eof), the endianness after the
\* call, the block body and the number of bytes consumed by the reads that
\* succeeded (used).
NgFail(hitEof, bigend, n) ==
    [ok |-> FALSE, eof |-> hitEof, be |-> bigend, body |-> << >>, used |-> n]

\* The part of readNgBlockBody that follows the byte-order magic: size is the
\* leading block length, start the number of body bytes already read.
\* The same without the test of the trailing block length.
NgBlockRestNoTrailer(bigend, start, s, size) ==
    IF size % 4 # 0 \/ size < 12 + start THEN NgFail(FALSE, bigend, 4 + start)
    ELSE IF Len(s) < size - 8 THEN NgFail(TRUE, bigend, 4 + start)
    ELSE IF Len(s) < size - 4 THEN NgFail(TRUE, bigend, size - 8)
    ELSE [ok |-> TRUE, eof |-> FALSE, be |-> bigend,
          body |-> Slice(s, 4, size - 12), used |-> size - 4]

NgBlockRest(bigend, start, s, size) ==
    IF size % 4 # 0 \/ size < 12 + start THEN NgFail(FALSE, bigend, 4 + start)
    ELSE IF Len(s) < size - 8 THEN NgFail(TRUE, bigend, 4 + start)
    ELSE IF Len(s) < size - 4 THEN NgFail(TRUE, bigend, size - 8)
    ELSE IF get32(bigend, s, size - 8) # size THEN NgFail(FALSE, bigend, size - 4)
    ELSE [ok |-> TRUE, eof |-> FALSE, be |-> bigend,
          body |-> Slice(s, 4, size - 12), used |-> size - 4]

ReadNgBlockBody(bigend, block_type, s) ==
    IF Len(s) < 4 THEN NgFail(TRUE, bigend, 0)
    ELSE IF block_type # PCAPNG_SECTION_HEADER
    THEN NgBlockRest(bigend, 0, s, get32(bigend, s, 0))
    ELSE IF Len(s) < 8 THEN NgFail(TRUE, bigend, 4)
    ELSE IF Slice(s, 4, 4) = PCAPNG_ORDER_BE THEN NgBlockRest(TRUE, 4, s, GetUInt32BE(s, 0))
    ELSE IF Slice(s, 4, 4) = PCAPNG_ORDER_LE THEN NgBlockRest(FALSE, 4, s, GetUInt32LE(s, 0))
    ELSE NgFail(FALSE, bigend, 8)

\* The option loop of analyzeNgInterface, from offset o of the block body.
\* The interface description after the option tag of len bytes at offset v.
NgOption1(bigend, data, ifd, tag, len, v) ==
    IF tag = PCAPNG_IF_FCSLEN /\ len = 1
    THEN [ifd EXCEPT !.fcs_size = data[v + 1]]
    ELSE IF tag = PCAPNG_IF_TSOFFSET /\ len = 8
    THEN [ifd EXCEPT !.time_offset = get64(bigend, data, v) * MicroDen]
    ELSE IF tag = PCAPNG_IF_TSRESOL /\ len = 1
    THEN [ifd EXCEPT !.time_units = IF data[v + 1] < 128 THEN Power10(data[v + 1])
                                    ELSE Power2(data[v + 1] % 128)]
    ELSE ifd

RECURSIVE NgOptions(_, _, _, _)
NgOptions(bigend, data, o, ifd) ==
    IF o + 4 > Len(data) THEN [ok |-> TRUE, ifd |-> ifd]
    ELSE IF o + 4 + get16(bigend, data, o + 2) > Len(data) THEN [ok |-> FALSE, ifd |-> ifd]
    ELSE NgOptions(bigend, data, o + 4 + round_up4(get16(bigend, data, o + 2)),
                   NgOption1(bigend, data, ifd, get16(bigend, data, o),
                             get16(bigend, data, o + 2), o + 4))

\* analyzeNgInterface: the interface described by the body of an
\* Interface-Description block, or a failure.
AnalyzeNgInterface(bigend, data) ==
    IF Len(data) < 8 THEN [ok |-> FALSE, ifd |-> InterfaceDesc]
    ELSE NgOptions(bigend, data, 8,
                   [InterfaceDesc EXCEPT !.link_type = get16(bigend, data, 0),
                                         !.time_units = MicroDen])

\* Timestamp of an Enhanced or Obsolete packet block, in microseconds:
\* tstamp is the 64-bit value of the block, units the resolution.
ScaleTimestamp(units, tstamp) ==
    IF units = MicroDen THEN tstamp
    ELSE IF units > MicroDen /\ units % MicroDen = 0 THEN tstamp \div (units \div MicroDen)
    ELSE IF units < MicroDen /\ MicroDen % units = 0 THEN tstamp * (MicroDen \div units)
    ELSE (tstamp * MicroDen) \div units

NgTimestamp(units, hi, lo) == ScaleTimestamp(units, hi * 65536 * 65536 + lo)

\* Timestamp of a pcap record, in microseconds.
PcapTimestamp(units, tstamp, sub_tstamp) ==
    IF units < 0 THEN NoTimestamp
    ELSE tstamp * MicroDen + (sub_tstamp * MicroDen) \div units

(***************************************************************************)
(* 64-bit arithmetic.  The values of std::intmax_t and uint64_t do not fit *)
(* the integers of the model checker: a natural number is the sequence of  *)
(* its bytes, least significant first, without leading zero byte; a signed *)
(* value is a sign and a magnitude.  Each operator takes the value of its  *)
(* operands once (x \in {a}) before it works on their bytes.               *)
(***************************************************************************)
RECURSIVE NormLen(_, _)
NormLen(a, n) == IF n > 0 /\ a[n] = 0 THEN NormLen(a, n - 1) ELSE n

Norm(a) == CHOOSE r \in {SubSeq(x, 1, NormLen(x, Len(x))) : x \in {a}} : TRUE

RECURSIVE BigOf(_)
BigOf(n) == IF n = 0 THEN << >> ELSE <<n % 256>> \o BigOf(n \div 256)

\* The value of a natural number below 2^31, from byte i up.
RECURSIVE ToIntFrom(_, _)
ToIntFrom(a, i) == IF i > Len(a) THEN 0 ELSE a[i] + 256 * ToIntFrom(a, i + 1)

ToInt(a) == CHOOSE n \in {ToIntFrom(x, 1) : x \in {a}} : TRUE

Digit(a, i) == IF i <= Len(a) THEN a[i] ELSE 0

RECURSIVE BigLessFrom(_, _, _)
BigLessFrom(a, b, i) ==
    IF i = 0 THEN FALSE
    ELSE IF a[i] # b[i] THEN a[i] < b[i]
    ELSE BigLessFrom(a, b, i - 1)

BigLess(a, b) ==
    \E x \in {a}, y \in {b} :
        IF Len(x) # Len(y) THEN Len(x) < Len(y) ELSE BigLessFrom(x, y, Len(x))

\* Bytes i and up of a + b + c, c being the carry.
RECURSIVE AddFrom(_, _, _, _)
AddFrom(a, b, i, c) ==
    IF i > Len(a) /\ i > Len(b) THEN BigOf(c)
    ELSE CHOOSE r \in {<<v % 256>> \o AddFrom(a, b, i + 1, v \div 256) :
                          v \in {Digit(a, i) + Digit(b, i) + c}} : TRUE

BigAdd(a, b) == CHOOSE r \in {AddFrom(x, y, 1, 0) : x \in {a}, y \in {b}} : TRUE

\* a - b, for a >= b; c is the borrow.
RECURSIVE SubFrom(_, _, _, _)
SubFrom(a, b, i, c) ==
    IF i > Len(a) THEN << >>
    ELSE CHOOSE r \in {<<(v + 256) % 256>> \o SubFrom(a, b, i + 1, IF v < 0 THEN 1 ELSE 0) :
                          v \in {a[i] - Digit(b, i) - c}} : TRUE

BigSub(a, b) == CHOOSE r \in {Norm(SubFrom(x, y, 1, 0)) : x \in {a}, y \in {b}} : TRUE

\* a * m, for m below 2^22; c is the carry.
RECURSIVE MulFrom(_, _, _, _)
MulFrom(a, m, i, c) ==
    IF i > Len(a) THEN BigOf(c)
    ELSE CHOOSE r \in {<<v % 256>> \o MulFrom(a, m, i + 1, v \div 256) :
                          v \in {a[i] * m + c}} : TRUE

MulSmall(a, m) == CHOOSE r \in {Norm(MulFrom(x, m, 1, 0)) : x \in {a}} : TRUE

\* a div d and a mod d, for d below 2^22; r is the remainder so far.
RECURSIVE DivFrom(_, _, _, _)
DivFrom(a, d, i, r) ==
    IF i = 0 THEN << >>
    ELSE CHOOSE q \in {DivFrom(a, d, i - 1, v % d) \o <<v \div d>> :
                          v \in {r * 256 + a[i]}} : TRUE

DivSmall(a, d) == CHOOSE q \in {Norm(DivFrom(x, d, Len(x), 0)) : x \in {a}} : TRUE

RECURSIVE ModFrom(_, _, _, _)
ModFrom(a, d, i, r) ==
    IF i = 0 THEN r
    ELSE CHOOSE m \in {ModFrom(a, d, i - 1, v) : v \in {(r * 256 + a[i]) % d}} : TRUE

ModSmall(a, d) == CHOOSE m \in {ModFrom(x, d, Len(x), 0) : x \in {a}} : TRUE

RECURSIVE BigPower(_, _)
BigPower(b, n) == IF n = 0 THEN <<1>> ELSE MulSmall(BigPower(b, n - 1), b)

\* Bit k of a, bit 0 being the least significant.
Bit(a, k) == (Digit(a, k \div 8 + 1) \div Power2(k % 8)) % 2

\* The number of significant bits of a byte and of a natural number.
RECURSIVE ByteLength(_)
ByteLength(n) == IF n = 0 THEN 0 ELSE 1 + ByteLength(n \div 2)

BitLength(a) ==
    CHOOSE n \in {IF x = << >> THEN 0 ELSE 8 * (Len(x) - 1) + ByteLength(x[Len(x)]) :
                     x \in {a}} : TRUE

ShiftLeft(a, s) ==
    MulSmall(MulSmall(MulSmall(a, Power2(s % 16)), Power2(16 * ((s \div 16) % 2))),
             IF s >= 32 THEN 65536 ELSE 1)

\* a shifted by s bits, for s below 48.
ShiftHigh(a, s) ==
    DivSmall(DivSmall(DivSmall(a, Power2(s % 16)), Power2(16 * ((s \div 16) % 2))),
             IF s >= 32 THEN 65536 ELSE 1)

\* a div b, for b > 0: long division, one byte of a at a time from byte i
\* down; r is the remainder so far, below b.  QuotDigit is the digit of the
\* quotient (the largest d with d * b <= r), found downward from weight w.
RECURSIVE QuotDigit(_, _, _, _)
QuotDigit(r, b, d, w) ==
    IF w = 0 THEN d
    ELSE IF BigLess(r, MulSmall(b, d + w)) THEN QuotDigit(r, b, d, w \div 2)
    ELSE QuotDigit(r, b, d + w, w \div 2)

RECURSIVE DivBytes(_, _, _, _)
DivBytesDigit(a, b, i, r, d) == DivBytes(a, b, i - 1, BigSub(r, MulSmall(b, d))) \o <<d>>

DivBytesNext(a, b, i, r) ==
    CHOOSE q \in {DivBytesDigit(a, b, i, r, d) : d \in {QuotDigit(r, b, 0, 128)}} : TRUE

DivBytes(a, b, i, r) ==
    IF i = 0 THEN << >>
    ELSE CHOOSE q \in {DivBytesNext(a, b, i, r2) :
                          r2 \in {BigAdd(MulSmall(r, 256), BigOf(a[i]))}} : TRUE

BigDiv(a, b) == CHOOSE q \in {Norm(DivBytes(x, y, Len(x), << >>)) : x \in {a}, y \in {b}} : TRUE

Two63 == <<0, 0, 0, 0, 0, 0, 0, 128>>
Two64 == <<0, 0, 0, 0, 0, 0, 0, 0, 1>>

\* A signed value.
Signed(neg, mag) == CHOOSE v \in {[neg |-> neg /\ m # << >>, mag |-> m] : m \in {mag}} : TRUE

\* The value fits std::intmax_t.
FitsIntMax(v) == IF v.neg THEN ~BigLess(Two63, v.mag) ELSE BigLess(v.mag, Two63)

\* The uint64_t u converted to std::intmax_t.
ToIntMax(u) == IF BigLess(u, Two63) THEN Signed(FALSE, u) ELSE Signed(TRUE, BigSub(Two64, u))

\* The value v reduced modulo 2^64 into the range of std::intmax_t.
Low64(a) == Norm(SubSeq(a, 1, Min(Len(a), 8)))

Wrap64(v) ==
    IF ~v.neg \/ Low64(v.mag) = << >> THEN ToIntMax(Low64(v.mag))
    ELSE ToIntMax(BigSub(Two64, Low64(v.mag)))

\* The nearest double of the natural number a: 53 significant bits, ties to
\* even; s is the number of bits dropped, q the bits kept, rem the value of
\* the bits dropped and half the weight of the first of them.
RoundTies(q, s, rem, half) ==
    ShiftLeft(IF BigLess(half, rem) \/ (rem = half /\ Bit(q, 0) = 1)
              THEN BigAdd(q, <<1>>) ELSE q, s)

RoundKept(a, s, q) == RoundTies(q, s, BigSub(a, ShiftLeft(q, s)), ShiftLeft(<<1>>, s - 1))

ToDouble(a) ==
    CHOOSE d \in {IF BitLength(x) <= 53 THEN x
                  ELSE RoundKept(x, BitLength(x) - 53, ShiftHigh(x, BitLength(x) - 53)) :
                     x \in {a}} : TRUE

\* Product and quotient (truncated toward zero) of a signed value.
Times(v, m) == Signed(v.neg, MulSmall(v.mag, m))
Over(v, b) == Signed(v.neg, BigDiv(v.mag, b))

\* analyzeNgInterface, option if_tsresol: the time units of resolution code
\* resol, 10^resol or 2^(resol - 128).
TimeUnits64(resol) ==
    IF resol < 128 THEN BigPower(10, resol) ELSE BigPower(2, resol - 128)

\* The cases without the one of the time units that are multiples of 10^6.
ScalePathNoDivide(units) ==
    IF units = BigOf(MicroDen) THEN "same"
    ELSE IF BigLess(units, BigOf(MicroDen)) /\ MicroDen % ToInt(units) = 0 THEN "multiply"
    ELSE "scale"

\* The case of the conversion that applies to the time units.
ScalePath(units) ==
    IF units = BigOf(MicroDen) THEN "same"
    ELSE IF BigLess(BigOf(MicroDen), units) /\ ModSmall(units, MicroDen) = 0 THEN "divide"
    ELSE IF BigLess(units, BigOf(MicroDen)) /\ MicroDen % ToInt(units) = 0 THEN "multiply"
    ELSE "scale"

\* One outcome of the conversion: the value, and whether every integer
\* computed on the way fitted std::intmax_t.
Outcome(path, out, fits) == [path |-> path, out |-> out, fits |-> fits]

\* The double (double(tstamp) * 1000000.0) / double(units) converted to
\* std::intmax_t; dbl is its integral part.  Out of range, the conversion is
\* undefined: the smallest or the largest value, depending on the processor.
DoubleOutcomes(dbl) ==
    IF FitsIntMax(dbl) THEN {Outcome("double", dbl, FALSE)}
    ELSE {Outcome("double", Signed(TRUE, Two63), FALSE),
          Outcome("double", Signed(FALSE, BigSub(Two63, <<1>>)), FALSE)}

\* tstamp * (1000000 / units), prod being the exact product.  When it does
\* not fit, the signed multiplication is undefined: the product wraps, or the
\* instruction traps and no timestamp comes out.
MultiplyOutcomes(prod) ==
    IF FitsIntMax(prod) THEN {Outcome("multiply", prod, TRUE)}
    ELSE {Outcome("multiply", Wrap64(prod), FALSE),
          Outcome("trap", Signed(TRUE, <<1>>), FALSE)}

\* The last two cases: tstamp * 1000000 is computed as the third argument of
\* mul_overflow; prod is the exact product.  When it does not fit the signed
\* multiplication is undefined: the overflow is detected on the wrapped
\* product (the double is used), or the compiler took it as impossible (the
\* wrapped product is divided).
ScaleOutcomes(units, tstamp, prod) ==
    IF FitsIntMax(prod) THEN {Outcome("scale", Over(prod, units), TRUE)}
    ELSE DoubleOutcomes(Signed(tstamp.neg,
                               BigDiv(ToDouble(MulSmall(ToDouble(tstamp.mag), MicroDen)),
                                      units)))
         \cup {Outcome("scale", Over(Wrap64(prod), units), FALSE)}

\* The conversion of readIP on 64-bit values: the outcomes for the time units
\* and the timestamp of the block.
ScaleTimestamp64(units, tstamp) ==
    IF ScalePath(units) = "same" THEN {Outcome("same", tstamp, TRUE)}
    ELSE IF ScalePath(units) = "divide"
    THEN {Outcome("divide", Over(tstamp, DivSmall(units, MicroDen)), TRUE)}
    ELSE IF ScalePath(units) = "multiply"
    THEN MultiplyOutcomes(Times(tstamp, MicroDen \div ToInt(units)))
    ELSE ScaleOutcomes(units, tstamp, Times(tstamp, MicroDen))

\* The timestamp of a block whose two 32-bit words make the value raw.
NgTimestamp64(resol, raw) == ScaleTimestamp64(TimeUnits64(resol), ToIntMax(raw))

(***************************************************************************)
(* PcapFile::readIP: from a captured frame to an IP datagram.              *)
(***************************************************************************)
\* The loop with each entry holding the EtherType of its own tag.
RECURSIVE VlanLoopOwnType(_, _, _, _, _)
VlanLoopOwnType(buffer, ether_type, cap_start, cap_size, vl) ==
    IF ~(ether_type # ETHERTYPE_IPv4 /\ ether_type # ETHERTYPE_IPv6 /\ cap_size > 0)
    THEN [cap_start |-> cap_start, cap_size |-> cap_size, vlans |-> vl]
    ELSE IF (ether_type = ETHERTYPE_802_1Q \/ ether_type = ETHERTYPE_802_1AD) /\ cap_size >= 4
    THEN VlanLoopOwnType(buffer, GetUInt16BE(buffer, cap_start + 2), cap_start + 4,
                         cap_size - 4,
                         Append(vl, VLANId(ether_type, GetUInt16BE(buffer, cap_start) % 4096)))
    ELSE IF ether_type = ETHERTYPE_802_1AH /\ cap_size >= 18
    THEN VlanLoopOwnType(buffer, GetUInt16BE(buffer, cap_start + 16), cap_start + 18,
                         cap_size - 18,
                         Append(vl, VLANId(ether_type,
                                           GetUInt24BE(buffer, cap_start + 1) % 4096)))
    ELSE [cap_start |-> cap_start, cap_size |-> 0, vlans |-> vl]

\* The loop on VLAN encapsulations of an Ethernet frame.
RECURSIVE VlanLoop(_, _, _, _, _)
VlanLoop(buffer, ether_type, cap_start, cap_size, vl) ==
    IF ~(ether_type # ETHERTYPE_IPv4 /\ ether_type # ETHERTYPE_IPv6 /\ cap_size > 0)
    THEN [cap_start |-> cap_start, cap_size |-> cap_size, vlans |-> vl]
    ELSE IF (ether_type = ETHERTYPE_802_1Q \/ ether_type = ETHERTYPE_802_1AD) /\ cap_size >= 4
    THEN VlanLoop(buffer, GetUInt16BE(buffer, cap_start + 2), cap_start + 4, cap_size - 4,
                  Append(vl, VLANId(GetUInt16BE(buffer, cap_start + 2),
                                    GetUInt16BE(buffer, cap_start) % 4096)))
    ELSE IF ether_type = ETHERTYPE_802_1AH /\ cap_size >= 18
    THEN VlanLoop(buffer, GetUInt16BE(buffer, cap_start + 16), cap_start + 18, cap_size - 18,
                  Append(vl, VLANId(GetUInt16BE(buffer, cap_start + 16),
                                    GetUInt24BE(buffer, cap_start + 1) % 4096)))
    ELSE [cap_start |-> cap_start, cap_size |-> 0, vlans |-> vl]

\* The 4-byte BSD loopback header, when the link type has one.
BsdProto(bigend, link_type, buffer, cap_start, cap_size) ==
    IF cap_size >= 4 /\ link_type = LINKTYPE_NULL THEN get32(bigend, buffer, cap_start)
    ELSE IF cap_size >= 4 /\ link_type = LINKTYPE_LOOP THEN GetUInt32BE(buffer, cap_start)
    ELSE PCAPNG_BSD_UNKNOWN

\* The link-layer analysis of readIP: where the IP datagram starts in the
\* buffer, its size (0 when there is none) and the VLAN stack.
Decapsulate(bigend, ifd, buffer, cap_start, cap_size) ==
    IF BsdProto(bigend, ifd.link_type, buffer, cap_start, cap_size)
           \in {PCAPNG_BSD_IPv4, PCAPNG_BSD_IPv6_24, PCAPNG_BSD_IPv6_28, PCAPNG_BSD_IPv6_30}
    THEN [cap_start |-> cap_start + 4, cap_size |-> cap_size - 4, vlans |-> << >>]
    ELSE IF /\ ifd.link_type \in {LINKTYPE_ETHERNET, LINKTYPE_NULL, LINKTYPE_LOOP}
            /\ cap_size > ETHER_HEADER_SIZE + ifd.fcs_size
    THEN VlanLoop(buffer, GetUInt16BE(buffer, cap_start + ETHER_TYPE_OFFSET),
                  cap_start + ETHER_HEADER_SIZE,
                  cap_size - (ETHER_HEADER_SIZE + ifd.fcs_size), << >>)
    ELSE IF ifd.link_type = LINKTYPE_RAW /\ cap_size >= 1
    THEN [cap_start |-> cap_start,
          cap_size |-> IF buffer[cap_start + 1] \notin {IPv4_VERSION, IPv6_VERSION}
                       THEN 0 ELSE cap_size,
          vlans |-> << >>]
    ELSE [cap_start |-> cap_start, cap_size |-> 0, vlans |-> << >>]

(***************************************************************************)
(* State.                                                                  *)
(***************************************************************************)
VARIABLES
    \* ts::PcapFile
    in_open,            \* _in != nullptr
    error,              \* _error
    be,                 \* _be
    ng,                 \* _ng
    major,              \* _major
    minor,              \* _minor
    file_size,          \* _file_size
    packet_count,       \* _packet_count
    ip_packet_count,    \* _ip_packet_count
    packets_size,       \* _packets_size
    ip_packets_size,    \* _ip_packets_size
    first_timestamp,    \* _first_timestamp
    last_timestamp,     \* _last_timestamp
    ifs,                \* _if
    \* the input stream
    eof,                \* _in->eof(): the end of the file was hit
    \* ts::PcapFilter
    opt,                \* _opt_first_packet ... _opt_last_time, _opt_vlans
    protocols,          \* _protocols
    source,             \* _source
    destination,        \* _destination
    bidirectional_filter,
    wildcard_filter,
    window,             \* _first_packet ... _last_time
    \* the readIP call in progress and the results of the last one
    pc,                 \* "idle", "file" (in PcapFile::readIP), "filter" (back in PcapFilter::readIP)
    ret,                \* value returned by the last readIP
    packet,             \* out parameter packet
    vlans,              \* out parameter vlans
    timestamp,          \* out parameter timestamp
    \* history of the run (not program state)
    h_opens,            \* number of open() calls so far
    h_blocks,           \* number of blocks / records taken from the current file
    h_frames,           \* number of packet-bearing blocks met in the current file
    h_min,              \* smallest non-negative timestamp recorded from the current file
    h_first,            \* first non-negative timestamp recorded from the current file
    h_ordered,          \* the timestamps recorded so far came in non-decreasing order
    h_stop,             \* why the filter's readIP last stopped on a window end
    h_learned,          \* the filter learned its addresses from a packet, no setter since
    conv,               \* the last timestamp conversion made on 64-bit values
    \* ts::tlv::Connection
    connected,          \* TCPConnection: the connection is established
    auto_error_response,
    max_invalid_msg,
    invalid_msg_count,
    rpc,                \* "idle", "loop" (in the loop of receiveMessage)
    rret,               \* value returned by the last receiveMessage
    h_conn,             \* what the peer sent and got, how the last receiveMessage ended
    \* ts::tlv::Connection<ThreadSafety::Full> used by several threads
    send_mutex,         \* _send_mutex: the thread that holds it, or NoThread
    receive_mutex,      \* _receive_mutex: the thread that holds it, or NoThread
    tpc,                \* position of each thread in sendMessage / receiveMessage
    tloc,               \* locals of each thread: message kind, counter read, return point
    h_wire,             \* the two byte streams of the connection, by who read and wrote
    h_last,             \* what the capture tool wrote: the last block read, the interfaces
    h_returned,         \* packetCount() at each successful return of readIP on this file
    h_ok,               \* value returned by the last open()
    h_op                \* the last operation called: "open", "close", "readIP", "set"

counters == <<file_size, packet_count, ip_packet_count, packets_size, ip_packets_size,
              first_timestamp, last_timestamp>>

format == <<be, ng, major, minor, ifs>>

fileVars == <<in_open, error, eof, counters, format>>

filterVars == <<opt, protocols, source, destination, bidirectional_filter,
                wildcard_filter, window>>

callVars == <<pc, ret, packet, vlans, timestamp>>

histVars ==
    <<h_opens, h_blocks, h_frames, h_min, h_first, h_ordered, h_stop, h_learned, h_last,
      h_returned, h_ok, h_op>>

\* ts::tlv::Connection and the call of receiveMessage in progress.
threadVars == <<send_mutex, receive_mutex, tpc, tloc, h_wire>>

tlvVars ==
    <<connected, auto_error_response, max_invalid_msg, invalid_msg_count, rpc, rret, h_conn,
      threadVars>>

vars == <<fileVars, filterVars, callVars, conv, histVars, tlvVars>>

\* Nothing received from a peer yet.  consecutive: invalid messages received
\* in a row on this connection, up to now; invalid, responses: invalid messages
\* received and error responses sent during the current (or last) call of
\* receiveMessage; received: messages received on this connection; last: the
\* kind of the last message received; cause: why the last call returned.
NoTraffic ==
    [consecutive |-> 0, invalid |-> 0, responses |-> 0, received |-> 0, connects |-> 0,
     last |-> "none", cause |-> "none"]

\* The threads that use the connection.
Threads == {"a", "b"}
NoThread == "none"

\* The locals of a thread outside any call.
NoLocals == [kind |-> "none", count |-> 0, resume |-> "idle"]

\* The streams of a new connection.  Each message, in either direction,
\* travels as two parts (header then payload; first and second half of the
\* serialized bytes).  in_pos, out_pos: parts read and written so far;
\* in_reader, out_writer: the thread that read or wrote the last part; in_by,
\* out_by: the threads that read or wrote a whole message; in_torn, out_torn:
\* a part was read or written out of place.
NoWire ==
    [in_pos |-> 0, in_reader |-> NoThread, in_by |-> {}, in_torn |-> FALSE,
     out_pos |-> 0, out_writer |-> NoThread, out_by |-> {}, out_torn |-> FALSE]

\* No conversion made yet.
NoConversion ==
    [resol |-> 0, raw |-> << >>, path |-> "none", out |-> Signed(FALSE, << >>), fits |-> TRUE]

\* No file, no block read yet, no interface written yet in the section.
NoBlock ==
    [kind |-> "none", lead |-> 0, trail |-> 0, sec |-> 0, sub |-> 0,
     link |-> LINKTYPE_UNKNOWN, links |-> << >>, magic |-> << >>, hlen |-> 0,
     tags |-> << >>, orders |-> << >>, hlink |-> LINKTYPE_UNKNOWN]

\* A file was written that starts with the bytes hdr: its first four bytes,
\* the number of header bytes it holds.
HeaderWritten(hdr) ==
    [NoBlock EXCEPT !.magic = SubSeq(hdr, 1, 4), !.hlen = Len(hdr),
                    !.orders = IF Len(hdr) < 12 \/ SubSeq(hdr, 1, 4) # PCAPNG_MAGIC
                               THEN << >>
                               ELSE IF SubSeq(hdr, 9, 12) = PCAPNG_ORDER_BE THEN <<"big">>
                               ELSE <<"little">>,
                    \* low 16 bits of the link-type field of a pcap header
                    !.hlink = IF Len(hdr) < 24 THEN LINKTYPE_UNKNOWN
                              ELSE IF SubSeq(hdr, 1, 4) \in {PCAP_MAGIC_BE, PCAPNS_MAGIC_BE}
                              THEN GetUInt32BE(hdr, 20) % 65536
                              ELSE IF SubSeq(hdr, 1, 4) \in {PCAP_MAGIC_LE, PCAPNS_MAGIC_LE}
                              THEN GetUInt32LE(hdr, 20) % 65536
                              ELSE LINKTYPE_UNKNOWN]

\* The filtering options when no command line option is given (loadArgs).
DefaultOptions ==
    [first_packet |-> 0, last_packet |-> MaxValue,
     first_time_offset |-> 0, last_time_offset |-> MaxValue,
     first_time |-> 0, last_time |-> MaxValue,
     vlans |-> << >>]

\* The window of a filter: the six bounds copied from the options by open().
WindowOf(o) ==
    [first_packet |-> o.first_packet, last_packet |-> o.last_packet,
     first_time_offset |-> o.first_time_offset, last_time_offset |-> o.last_time_offset,
     first_time |-> o.first_time, last_time |-> o.last_time]

Init ==
    /\ in_open = FALSE
    /\ error = FALSE
    /\ be = FALSE
    /\ ng = FALSE
    /\ major = 0
    /\ minor = 0
    /\ file_size = 0
    /\ packet_count = 0
    /\ ip_packet_count = 0
    /\ packets_size = 0
    /\ ip_packets_size = 0
    /\ first_timestamp = NoTimestamp
    /\ last_timestamp = NoTimestamp
    /\ ifs = << >>
    /\ eof = FALSE
    /\ opt = DefaultOptions
    /\ protocols = {}
    /\ source = AnySocketAddress
    /\ destination = AnySocketAddress
    /\ bidirectional_filter = FALSE
    /\ wildcard_filter = TRUE
    /\ window = WindowOf(DefaultOptions)
    /\ pc = "idle"
    /\ ret = FALSE
    /\ packet = NoPacket
    /\ vlans = << >>
    /\ timestamp = NoTimestamp
    /\ h_opens = 0
    /\ h_blocks = 0
    /\ h_frames = 0
    /\ h_min = NoTimestamp
    /\ h_first = NoTimestamp
    /\ h_ordered = TRUE
    /\ h_stop = "none"
    /\ h_learned = FALSE
    /\ h_last = NoBlock
    /\ h_returned = << >>
    /\ h_ok = FALSE
    /\ conv = NoConversion
    /\ h_op = "none"
    /\ connected = FALSE
    /\ auto_error_response = TRUE
    /\ max_invalid_msg = 0
    /\ invalid_msg_count = 0
    /\ rpc = "idle"
    /\ rret = FALSE
    /\ h_conn = NoTraffic
    /\ send_mutex = NoThread
    /\ receive_mutex = NoThread
    /\ tpc = [t \in Threads |-> "idle"]
    /\ tloc = [t \in Threads |-> NoLocals]
    /\ h_wire = NoWire

(***************************************************************************)
(* Input files.  A file is a header followed by blocks (pcap-ng) or        *)
(* records (pcap); the environment writes them in the byte order of the    *)
(* file.                                                                   *)
(***************************************************************************)
\* Header of a pcap file: magic, version 2.4, link type in the low 16 bits
\* of the last 32-bit field.
PcapFileHeader(magic, bigend, linktype) ==
    magic \o Put16(bigend, 2) \o Put16(bigend, 4) \o Zeros(12) \o Put32(bigend, linktype)

\* A pcap-ng block: type, total length, body, total length.
NgBlock(bigend, type, body) ==
    Put32(bigend, type) \o Put32(bigend, Len(body) + 12) \o body
        \o Put32(bigend, Len(body) + 12)

\* Body of a Section-Header block: byte-order magic, version 1.0, section length.
NgSectionBody(bigend) ==
    (IF bigend THEN PCAPNG_ORDER_BE ELSE PCAPNG_ORDER_LE)
        \o Put16(bigend, 1) \o Put16(bigend, 0) \o [i \in 1 .. 8 |-> 255]

NgSectionHeader(bigend) == NgBlock(bigend, PCAPNG_SECTION_HEADER, NgSectionBody(bigend))

\* The file headers of the model.
FileHeaders ==
    { PcapFileHeader(PCAP_MAGIC_LE, FALSE, LINKTYPE_ETHERNET),
      PcapFileHeader(PCAP_MAGIC_BE, TRUE, LINKTYPE_ETHERNET),
      PcapFileHeader(PCAPNS_MAGIC_BE, TRUE, LINKTYPE_ETHERNET),
      PcapFileHeader(PCAPNS_MAGIC_LE, FALSE, LINKTYPE_ETHERNET),
      NgSectionHeader(FALSE),
      NgSectionHeader(TRUE),
      <<1, 2, 3, 4>> \o Zeros(20),                        \* unknown magic
      SubSeq(PcapFileHeader(PCAP_MAGIC_LE, FALSE, LINKTYPE_ETHERNET), 1, 10) }  \* cut short

(***************************************************************************)
(* PcapFile::readHeader.  magic: the four bytes already read; rest: the    *)
(* bytes that follow in the file; cur: the format fields before the call.  *)
(***************************************************************************)
\* pcap-ng case, r being the result of readNgBlockBody on the section header.
\* The interface table kept through a section header.
NgHeaderKeepsInterfaces(cur, r) ==
    IF ~r.ok
    THEN [ok |-> FALSE, eof |-> r.eof, used |-> r.used,
          fmt |-> [cur EXCEPT !.ng = TRUE, !.be = r.be]]
    ELSE IF Len(r.body) < 16
    THEN [ok |-> FALSE, eof |-> FALSE, used |-> r.used,
          fmt |-> [cur EXCEPT !.ng = TRUE, !.be = r.be]]
    ELSE [ok |-> TRUE, eof |-> FALSE, used |-> r.used,
          fmt |-> [be |-> r.be, ng |-> TRUE, major |-> get16(r.be, r.body, 4),
                   minor |-> get16(r.be, r.body, 6), ifs |-> cur.ifs]]

NgHeader(cur, r) ==
    IF ~r.ok
    THEN [ok |-> FALSE, eof |-> r.eof, used |-> r.used,
          fmt |-> [cur EXCEPT !.ng = TRUE, !.be = r.be]]
    ELSE IF Len(r.body) < 16
    THEN [ok |-> FALSE, eof |-> FALSE, used |-> r.used,
          fmt |-> [cur EXCEPT !.ng = TRUE, !.be = r.be]]
    ELSE [ok |-> TRUE, eof |-> FALSE, used |-> r.used,
          fmt |-> [be |-> r.be, ng |-> TRUE, major |-> get16(r.be, r.body, 4),
                   minor |-> get16(r.be, r.body, 6), ifs |-> << >>]]

\* pcap case, h being the decoded header.
PcapHeader(h) ==
    [ok |-> TRUE, eof |-> FALSE, used |-> 20,
     fmt |-> [be |-> h.be, ng |-> FALSE, major |-> h.major, minor |-> h.minor,
              ifs |-> <<h.ifd>>]]

ReadHeader(magic, rest, cur) ==
    IF magic \in {PCAP_MAGIC_BE, PCAP_MAGIC_LE, PCAPNS_MAGIC_BE, PCAPNS_MAGIC_LE}
    THEN IF Len(rest) < 20
         THEN [ok |-> FALSE, eof |-> TRUE, used |-> 0, fmt |-> cur]
         ELSE PcapHeader(ReadPcapHeader(magic, rest,
                                        IF cur.ifs = << >> THEN InterfaceDesc
                                        ELSE cur.ifs[1]))
    ELSE IF magic = PCAPNG_MAGIC
    THEN NgHeader(cur, ReadNgBlockBody(cur.be, PCAPNG_SECTION_HEADER, rest))
    ELSE [ok |-> FALSE, eof |-> FALSE, used |-> 0, fmt |-> cur]

CurFormat == [be |-> be, ng |-> ng, major |-> major, minor |-> minor, ifs |-> ifs]

SetFormat(f) ==
    /\ be' = f.be
    /\ ng' = f.ng
    /\ major' = f.major
    /\ minor' = f.minor
    /\ ifs' = f.ifs

(***************************************************************************)
(* PcapFile::open followed by the filter reset of PcapFilter::open.        *)
(* hdr: the first bytes of the file; opens: the file can be opened.        *)
(***************************************************************************)
ResetCounters ==
    /\ packet_count' = 0
    /\ ip_packet_count' = 0
    /\ packets_size' = 0
    /\ ip_packets_size' = 0
    /\ first_timestamp' = NoTimestamp
    /\ last_timestamp' = NoTimestamp

ResetHistory ==
    /\ h_blocks' = 0
    /\ h_frames' = 0
    /\ h_min' = NoTimestamp
    /\ h_first' = NoTimestamp
    /\ h_ordered' = TRUE
    /\ h_stop' = "none"
    /\ h_learned' = FALSE
    /\ h_returned' = << >>

\* The reset of the filter that keeps the addresses of the previous file.
ResetFiltersKeepsAddresses ==
    /\ protocols' = {}
    /\ source' = source
    /\ destination' = destination
    /\ bidirectional_filter' = FALSE
    /\ wildcard_filter' = TRUE
    /\ window' = WindowOf(opt)
    /\ opt' = opt

\* PcapFilter::open, after the superclass succeeded.
ResetFilters ==
    /\ protocols' = {}
    /\ source' = AnySocketAddress
    /\ destination' = AnySocketAddress
    /\ bidirectional_filter' = FALSE
    /\ wildcard_filter' = TRUE
    /\ window' = WindowOf(opt)
    /\ opt' = opt

\* open() on a reader that is already open, the filter being reset all the same.
OpenAlreadyResetsFilters ==
    /\ pc = "idle"
    /\ h_opens < MaxOpens
    /\ in_open
    /\ h_opens' = h_opens + 1
    /\ h_op' = "open"
    /\ h_ok' = FALSE
    /\ ResetFilters
    /\ UNCHANGED <<fileVars, callVars, h_blocks, h_frames, h_min, h_first,
                   h_ordered, h_stop, h_learned, h_last, h_returned, conv, tlvVars>>

\* open() on a reader that is already open: "already open", nothing changes.
OpenAlready ==
    /\ pc = "idle"
    /\ h_opens < MaxOpens
    /\ in_open
    /\ h_opens' = h_opens + 1
    /\ h_op' = "open"
    /\ h_ok' = FALSE
    /\ UNCHANGED <<fileVars, filterVars, callVars, h_blocks, h_frames, h_min, h_first,
                   h_ordered, h_stop, h_learned, h_last, h_returned, conv, tlvVars>>

\* open() when the file cannot be opened: the counters are reset, no stream.
OpenFails ==
    /\ pc = "idle"
    /\ h_opens < MaxOpens
    /\ ~in_open
    /\ h_opens' = h_opens + 1
    /\ h_op' = "open"
    /\ ResetCounters
    /\ ResetHistory
    /\ h_last' = NoBlock
    /\ h_ok' = FALSE
    /\ file_size' = 0
    /\ error' = FALSE
    /\ UNCHANGED <<in_open, eof, format, filterVars, callVars, conv, tlvVars>>

\* open() on a file that starts with the bytes hdr; h: the result of reading
\* the magic and the header.
OpenResult(hdr, h) ==
    /\ pc = "idle"
    /\ h_opens < MaxOpens
    /\ ~in_open
    /\ h_opens' = h_opens + 1
    /\ h_op' = "open"
    /\ ResetCounters
    /\ ResetHistory
    /\ h_last' = HeaderWritten(hdr)
    /\ h_ok' = h.ok
    /\ file_size' = IF Len(hdr) >= 4 THEN 4 + h.used ELSE 0
    /\ error' = ~h.ok
    /\ eof' = h.eof
    /\ in_open' = h.ok
    /\ SetFormat(h.fmt)
    /\ IF h.ok THEN ResetFilters ELSE UNCHANGED filterVars
    /\ UNCHANGED <<callVars, conv, tlvVars>>

OpenFile(hdr) ==
    OpenResult(hdr, IF Len(hdr) >= 4
                    THEN ReadHeader(Slice(hdr, 0, 4), SubSeq(hdr, 5, Len(hdr)), CurFormat)
                    ELSE [ok |-> FALSE, eof |-> TRUE, used |-> 0, fmt |-> CurFormat])

OpenAny(headers) == OpenAlready \/ OpenFails \/ \E hdr \in headers : OpenFile(hdr)

Open == OpenAny(FileHeaders)

\* close() that also resets the counters and the error flag.
CloseResetsCounters ==
    /\ pc = "idle"
    /\ in_open
    /\ in_open' = FALSE
    /\ h_op' = "close"
    /\ ResetCounters
    /\ file_size' = 0
    /\ error' = FALSE
    /\ UNCHANGED <<eof, format, filterVars, callVars,
                   h_opens, h_blocks, h_frames, h_min, h_first, h_ordered, h_stop, h_learned, h_last, h_returned, h_ok, conv, tlvVars>>

\* PcapFile::close.
Close ==
    /\ pc = "idle"
    /\ in_open
    /\ in_open' = FALSE
    /\ h_op' = "close"
    /\ UNCHANGED <<error, eof, counters, format, filterVars, callVars,
                   h_opens, h_blocks, h_frames, h_min, h_first, h_ordered, h_stop, h_learned, h_last, h_returned, h_ok, conv, tlvVars>>

(***************************************************************************)
(* PcapFile::readIP.                                                       *)
(***************************************************************************)
\* The checks made on entry, without the one of the error flag.
ReadRefusedNoLatch == ~in_open

\* The checks made on entry: no file open, or error already set.
ReadRefused == ~in_open \/ error

\* Reading one block (pcap-ng) or one record (pcap) from the bytes s that the
\* file holds at the current block boundary.  res is "error" (the read failed),
\* "skip" (no captured packet in this block) or "frame"; count tells whether
\* _packet_count is incremented.
BlockResult(res, hitEof, f, n, c) ==
    [res |-> res, eof |-> hitEof, fmt |-> f, used |-> n, count |-> c,
     buffer |-> << >>, cap_start |-> 0, cap_size |-> 0, orig_size |-> 0,
     if_index |-> 0, ts |-> NoTimestamp]

\* A packet block that is counted only when its frame is complete.
NgPacketCountsComplete(b, idx, used) ==
    [BlockResult("frame", FALSE, CurFormat, used,
                 IF get32(be, b, 16) > Min(get32(be, b, 12), Len(b) - 20) THEN 0 ELSE 1) EXCEPT
        !.buffer = b,
        !.cap_start = 20,
        !.cap_size = Min(get32(be, b, 12), Len(b) - 20),
        !.orig_size = get32(be, b, 16),
        !.if_index = idx,
        !.ts = IF idx < Len(ifs) /\ ifs[idx + 1].time_units # 0
               THEN NgTimestamp(ifs[idx + 1].time_units, get32(be, b, 4), get32(be, b, 8))
               ELSE NoTimestamp]

\* An Enhanced or Obsolete packet block of body b on interface idx.
NgPacket(b, idx, used) ==
    [BlockResult("frame", FALSE, CurFormat, used, 1) EXCEPT
        !.buffer = b,
        !.cap_start = 20,
        !.cap_size = Min(get32(be, b, 12), Len(b) - 20),
        !.orig_size = get32(be, b, 16),
        !.if_index = idx,
        !.ts = IF idx < Len(ifs) /\ ifs[idx + 1].time_units # 0
               THEN NgTimestamp(ifs[idx + 1].time_units, get32(be, b, 4), get32(be, b, 8))
               ELSE NoTimestamp]

\* A Simple packet block that is not counted as a captured packet.
NgSimplePacketUncounted(b, used) ==
    [BlockResult("frame", FALSE, CurFormat, used, 0) EXCEPT
        !.buffer = b,
        !.cap_start = 4,
        !.orig_size = get32(be, b, 0),
        !.cap_size = Min(get32(be, b, 0), Len(b) - 4)]

\* A Simple packet block of body b.
NgSimplePacket(b, used) ==
    [BlockResult("frame", FALSE, CurFormat, used, 1) EXCEPT
        !.buffer = b,
        !.cap_start = 4,
        !.orig_size = get32(be, b, 0),
        !.cap_size = Min(get32(be, b, 0), Len(b) - 4)]

\* An Interface-Description block whose interface is added whatever the
\* result of analyzeNgInterface.
NgInterfaceIgnoresFailure(a, used) ==
    BlockResult("skip", FALSE, [CurFormat EXCEPT !.ifs = Append(ifs, a.ifd)], used, 0)

\* An Interface-Description block, a being the result of analyzeNgInterface.
NgInterface(a, used) ==
    IF a.ok
    THEN BlockResult("skip", FALSE, [CurFormat EXCEPT !.ifs = Append(ifs, a.ifd)], used, 0)
    ELSE BlockResult("error", FALSE, CurFormat, used, 0)

\* A block other than a section header, r being the result of readNgBlockBody.
NgDataBlock(type, r) ==
    IF ~r.ok THEN BlockResult("error", r.eof, CurFormat, 4 + r.used, 0)
    ELSE IF type = PCAPNG_INTERFACE_DESC
    THEN NgInterface(AnalyzeNgInterface(be, r.body), 4 + r.used)
    ELSE IF (type = PCAPNG_ENHANCED_PACKET \/ type = PCAPNG_OBSOLETE_PACKET)
            /\ Len(r.body) >= 20
    THEN NgPacket(r.body,
                  IF type = PCAPNG_OBSOLETE_PACKET THEN get16(be, r.body, 0)
                  ELSE get32(be, r.body, 0),
                  4 + r.used)
    ELSE IF type = PCAPNG_SIMPLE_PACKET /\ Len(r.body) >= 4
    THEN NgSimplePacket(r.body, 4 + r.used)
    ELSE BlockResult("skip", FALSE, CurFormat, 4 + r.used, 0)

\* A section header met in the loop, h being the result of readHeader.
NgNewSection(h) ==
    BlockResult(IF h.ok THEN "skip" ELSE "error", h.eof, h.fmt, 4 + h.used, 0)

ReadNgBlock(s) ==
    IF Len(s) < 4 THEN BlockResult("error", TRUE, CurFormat, 0, 0)
    ELSE IF get32(be, s, 0) = PCAPNG_SECTION_HEADER
    THEN NgNewSection(ReadHeader(PCAPNG_MAGIC, SubSeq(s, 5, Len(s)), CurFormat))
    ELSE NgDataBlock(get32(be, s, 0),
                     ReadNgBlockBody(be, get32(be, s, 0), SubSeq(s, 5, Len(s))))

\* A pcap record that is not counted as a captured packet.
PcapDataUncounted(s, cap) ==
    IF Len(s) < 16 + cap THEN BlockResult("error", TRUE, CurFormat, 16, 0)
    ELSE [BlockResult("frame", FALSE, CurFormat, 16 + cap, 0) EXCEPT
             !.buffer = Slice(s, 16, cap),
             !.cap_size = cap,
             !.orig_size = get32(be, s, 12),
             !.ts = PcapTimestamp(ifs[1].time_units, get32(be, s, 0), get32(be, s, 4))]

\* A pcap record with cap captured bytes.
PcapData(s, cap) ==
    IF Len(s) < 16 + cap THEN BlockResult("error", TRUE, CurFormat, 16, 1)
    ELSE [BlockResult("frame", FALSE, CurFormat, 16 + cap, 1) EXCEPT
             !.buffer = Slice(s, 16, cap),
             !.cap_size = cap,
             !.orig_size = get32(be, s, 12),
             !.ts = PcapTimestamp(ifs[1].time_units, get32(be, s, 0), get32(be, s, 4))]

\* The end of the file taken as a record without packet: nothing consumed,
\* no failure.
ReadPcapRecordPastEnd(s) ==
    IF Len(s) < 16 THEN BlockResult("skip", TRUE, CurFormat, 0, 0)
    ELSE PcapData(s, get32(be, s, 8))

ReadPcapRecord(s) ==
    IF Len(s) < 16 THEN BlockResult("error", TRUE, CurFormat, 0, 1)
    ELSE PcapData(s, get32(be, s, 8))

\* Reading with the end of the file at a block boundary taken as no failure.
ReadBlockCleanEnd(s) ==
    IF s = << >> THEN BlockResult("skip", TRUE, CurFormat, 0, 0)
    ELSE IF ng THEN ReadNgBlock(s) ELSE ReadPcapRecord(s)

ReadBlock(s) == IF ng THEN ReadNgBlock(s) ELSE ReadPcapRecord(s)

\* The interface of a captured frame (a default one when the index is unknown).
\* The first interface taken when the index is unknown.
FrameInterfaceOrFirst(f, idx) ==
    IF idx < Len(f.ifs) THEN f.ifs[idx + 1]
    ELSE IF f.ifs # << >> THEN f.ifs[1] ELSE InterfaceDesc

FrameInterface(f, idx) == IF idx < Len(f.ifs) THEN f.ifs[idx + 1] ELSE InterfaceDesc

\* The two timestamps with their roles exchanged.
RecordTimestampSwapped(first, last, t) ==
    [first |-> t, last |-> IF last < 0 THEN t ELSE last]

\* The first timestamp kept as the smallest one seen.
RecordTimestampSmallest(first, last, t) ==
    [first |-> IF first < 0 \/ t < first THEN t ELSE first, last |-> t]

\* _first_timestamp and _last_timestamp after a frame with timestamp t.
RecordTimestamp(first, last, t) ==
    [first |-> IF first < 0 THEN t ELSE first, last |-> t]

\* The captured frame of block result r, processed to the end of the loop body:
\* truncated (skipped), the timestamp with the interface offset (adj), whether
\* it is recorded (real), the timestamps of the file after it (stamps) and the
\* datagram found (pk.valid) or not.
\* The datagram looked for in a truncated frame too.
FrameDatagramOfTruncated(r, d) ==
    [pk |-> IF d.cap_size > 0
            THEN IPPacketReset(Slice(r.buffer, d.cap_start, d.cap_size))
            ELSE NoPacket,
     ip_size |-> d.cap_size, vlans |-> d.vlans]

FrameDatagram(r, d) ==
    [pk |-> IF r.orig_size <= r.cap_size /\ d.cap_size > 0
            THEN IPPacketReset(Slice(r.buffer, d.cap_start, d.cap_size))
            ELSE NoPacket,
     ip_size |-> d.cap_size, vlans |-> d.vlans]

FrameStamps(r, ifd) ==
    IF r.orig_size <= r.cap_size /\ r.ts >= 0
    THEN [real |-> TRUE, adj |-> r.ts + ifd.time_offset,
          stamps |-> RecordTimestamp(first_timestamp, last_timestamp,
                                     r.ts + ifd.time_offset)]
    ELSE [real |-> FALSE, adj |-> r.ts,
          stamps |-> [first |-> first_timestamp, last |-> last_timestamp]]

FrameOn(r, ifd) ==
    [truncated |-> r.orig_size > r.cap_size,
     t |-> FrameStamps(r, ifd),
     d |-> FrameDatagram(r, Decapsulate(r.fmt.be, ifd, r.buffer, r.cap_start, r.cap_size))]

ProcessFrame(r) == FrameOn(r, FrameInterface(r.fmt, r.if_index))

(***************************************************************************)
(* Blocks and records of the input files.  Each comes with the fact the    *)
(* capture tool knows: whether it is a packet-bearing block.               *)
(***************************************************************************)
\* Besides its bytes an item carries what the capture tool knows of it: its
\* kind, the two total lengths of a pcap-ng block, the seconds and sub-seconds
\* of a pcap record, the link type (of the interface a block describes, or of
\* the frame a block holds) and the index of the interface a packet block
\* refers to, the VLAN tags of the frame (12-bit id and EtherType that follows
\* the tag), outer first.
Item(bytes, bearing) ==
    [bytes |-> bytes, bearing |-> bearing, kind |-> IF bearing THEN "ip" ELSE "other",
     lead |-> 0, trail |-> 0, sec |-> 0, sub |-> 0, link |-> LINKTYPE_ETHERNET, idx |-> -1,
     tags |-> << >>, order |-> "none"]

Kind(x, k) == [x EXCEPT !.kind = k]

\* A pcap-ng block with its two total lengths.
Lengths(x, l, t) == [x EXCEPT !.lead = l, !.trail = t]

\* A well-formed pcap-ng block: both total lengths, as written in the bytes.
Framed(x) == Lengths(x, Len(x.bytes), Len(x.bytes))

\* A packet block on interface i, or the description of an interface.
OnInterface(x, i) == [x EXCEPT !.idx = i]
OfLinkType(x, l) == [x EXCEPT !.link = l]

\* A frame behind the VLAN tags t.
Tagged(x, t) == [x EXCEPT !.tags = t]

\* A Section-Header block written by a tool of byte order bigend.
Section(x, bigend) ==
    [x EXCEPT !.kind = "section", !.order = IF bigend THEN "big" ELSE "little"]

\* The kind of a packet block, given the link types of the interfaces written
\* so far in the section: on no interface, or a frame of another link type.
KindIn(x, links) ==
    IF ~x.bearing \/ x.idx < 0 THEN x.kind
    ELSE IF x.idx >= Len(links) THEN "orphan"
    ELSE IF links[x.idx + 1] # x.link THEN "mismatch"
    ELSE x.kind

\* What is known after item x was written, prev being what was known before.
Written(x, prev) ==
    [prev EXCEPT !.kind = KindIn(x, prev.links), !.lead = x.lead, !.trail = x.trail,
                 !.sec = x.sec, !.sub = x.sub, !.link = x.link, !.tags = x.tags,
                 !.links = IF x.kind = "section" THEN << >>
                           ELSE IF x.kind = "interface" THEN Append(prev.links, x.link)
                           ELSE prev.links,
                 !.orders = IF x.kind = "section" THEN Append(prev.orders, x.order)
                            ELSE prev.orders]

EndOfFile == Kind(Item(<< >>, FALSE), "end")

HostA == Host(1)
HostB == Host(2)
HostC == Host(3)

\* Captured frames, all of 42 bytes.
UdpAB == EtherFrame(ETHERTYPE_IPv4, IPv4Datagram(IP_SUBPROTO_UDP, HostA, 1234, HostB, 80))
RawAB == IPv4Datagram(IP_SUBPROTO_UDP, HostA, 1234, HostB, 80)
ArpFrame == EtherFrame(ETHERTYPE_ARP, Zeros(28))
\* UdpAB behind an 802.1ad tag (priority 3, id 100) and an 802.1Q tag (id 200);
\* behind an 802.1ah tag (service id 0x012345) and an 802.1Q tag (priority 1,
\* id 7).
UdpAdQ ==
    EtherFrame(ETHERTYPE_802_1AD,
               VlanTag(24576 + 100, ETHERTYPE_802_1Q) \o VlanTag(200, ETHERTYPE_IPv4) \o RawAB)
UdpMimQ ==
    EtherFrame(ETHERTYPE_802_1AH,
               MimTag(74565, ETHERTYPE_802_1Q) \o VlanTag(8192 + 7, ETHERTYPE_IPv4) \o RawAB)
TagsAdQ == <<[id |-> 100, next |-> 33024], [id |-> 200, next |-> 2048]>>
TagsMimQ == <<[id |-> 837, next |-> 33024], [id |-> 7, next |-> 2048]>>
BadIPFrame == EtherFrame(ETHERTYPE_IPv4, <<69, 0>> \o Put16BE(99) \o Zeros(24))

\* A pcap record: seconds, sub-seconds, captured size, original size, frame.
PcapRecord(bigend, sec, sub, orig, frame) ==
    Put32(bigend, sec) \o Put32(bigend, sub) \o Put32(bigend, Len(frame))
        \o Put32(bigend, orig) \o frame

\* A pcap record with its seconds and sub-seconds.
Record(bigend, sec, sub, orig, frame) ==
    [Item(PcapRecord(bigend, sec, sub, orig, frame), TRUE) EXCEPT !.sec = sec, !.sub = sub]

\* An Enhanced-Packet block: interface, timestamp, sizes, frame.
EnhancedPacket(bigend, idx, tstamp, orig, frame) ==
    NgBlock(bigend, PCAPNG_ENHANCED_PACKET,
            Put32(bigend, idx) \o Put32(bigend, 0) \o Put32(bigend, tstamp)
                \o Put32(bigend, Len(frame)) \o Put32(bigend, orig) \o Pad4(frame))

\* A Simple-Packet block: original size, frame.
SimplePacket(bigend, orig, frame) ==
    NgBlock(bigend, PCAPNG_SIMPLE_PACKET, Put32(bigend, orig) \o Pad4(frame))

\* One option of an Interface-Description block.
NgOption(bigend, tag, value) == Put16(bigend, tag) \o Put16(bigend, Len(value)) \o Pad4(value)

\* An Interface-Description block: link type, reserved, snap length, options.
InterfaceBlock(bigend, linktype, options) ==
    NgBlock(bigend, PCAPNG_INTERFACE_DESC,
            Put16(bigend, linktype) \o Zeros(6) \o options)

\* The tag of an option that the reader does not know (if_name).
IF_NAME == 2

\* if_tsoffset of -1 second.
MinusOneSecond == [i \in 1 .. 8 |-> 255]

\* What a pcap-ng file written in byte order bigend may hold after its header.
NgItems(bigend) ==
    { Framed(Kind(Item(InterfaceBlock(bigend, LINKTYPE_ETHERNET, << >>), FALSE), "interface")),
      Framed(Kind(Item(InterfaceBlock(bigend, LINKTYPE_ETHERNET,
                          NgOption(bigend, PCAPNG_IF_TSOFFSET, MinusOneSecond)), FALSE),
                  "interface")),
      Framed(OnInterface(Item(EnhancedPacket(bigend, 0, 1, 42, UdpAB), TRUE), 0)),
      Framed(OnInterface(Item(EnhancedPacket(bigend, 0, 2, 42, UdpAB), TRUE), 0)),
      Framed(OnInterface(Item(EnhancedPacket(bigend, 1, 2, 42, UdpAB), TRUE), 1)),
      Framed(OnInterface(Kind(Item(EnhancedPacket(bigend, 0, 1, 1500, UdpAB), TRUE),
                              "truncated"), 0)),
      Framed(OnInterface(Kind(Item(EnhancedPacket(bigend, 0, 1, 42, ArpFrame), TRUE),
                              "notip"), 0)),
      Framed(OnInterface(Item(SimplePacket(bigend, 42, UdpAB), TRUE), 0)),
      Framed(OfLinkType(Kind(Item(InterfaceBlock(bigend, LINKTYPE_RAW, << >>), FALSE),
                             "interface"), LINKTYPE_RAW)),
      Framed(OfLinkType(OnInterface(Item(EnhancedPacket(bigend, 0, 1, 28, RawAB), TRUE), 0),
                        LINKTYPE_RAW)),
      \* an unknown option (if_name "eth", 3 bytes and padding) before if_tsoffset
      Framed(Kind(Item(InterfaceBlock(bigend, LINKTYPE_ETHERNET,
                          NgOption(bigend, IF_NAME, <<101, 116, 104>>)
                              \o NgOption(bigend, PCAPNG_IF_TSOFFSET, MinusOneSecond)), FALSE),
                  "interface")),
      \* an option of 8 bytes of which the block holds 4
      Framed(Kind(Item(InterfaceBlock(bigend, LINKTYPE_ETHERNET,
                          Put16(bigend, PCAPNG_IF_TSOFFSET) \o Put16(bigend, 8) \o Zeros(4)),
                       FALSE), "badinterface")),
      \* a body of 4 bytes
      Framed(Kind(Item(NgBlock(bigend, PCAPNG_INTERFACE_DESC,
                               Put16(bigend, LINKTYPE_ETHERNET) \o Zeros(2)), FALSE),
                  "badinterface")),
      Framed(Item(NgBlock(bigend, 5, Zeros(8)), FALSE)),          \* another block type
      Framed(Section(Item(NgSectionHeader(bigend), FALSE), bigend)),
      \* a section written in the other byte order
      Framed(Section(Item(NgSectionHeader(~bigend), FALSE), ~bigend)),
      \* a section header with an unknown byte-order magic
      Framed(Kind(Item(NgBlock(bigend, PCAPNG_SECTION_HEADER, <<1, 2, 3, 4>> \o Zeros(12)),
                       FALSE), "badsection")),
      Lengths(Item(Put32(bigend, PCAPNG_ENHANCED_PACKET) \o Put32(bigend, 20) \o Zeros(8)
                       \o Put32(bigend, 24), FALSE), 20, 24),     \* lengths disagree
      Lengths(Item(Put32(bigend, 5) \o Put32(bigend, 22) \o Zeros(10)
                       \o Put32(bigend, 22), FALSE), 22, 22),     \* not a multiple of 4
      Lengths(Item(Put32(bigend, 5) \o Put32(bigend, 8), FALSE), 8, 8),
                                                                  \* shorter than 12
      Kind(Item(Put32(bigend, PCAPNG_ENHANCED_PACKET) \o Put32(bigend, 64) \o Zeros(8), FALSE),
           "cut"),                                                \* cut short
      EndOfFile }

\* What a pcap file may hold after its header; nano: sub-seconds in nanoseconds.
PcapItems(bigend, nano) ==
    LET k == IF nano THEN 1000 ELSE 1
    IN { Record(bigend, 0, 1 * k, 42, UdpAB),
         Record(bigend, 0, 2 * k, 42, UdpAB),
         Record(bigend, 1, 2 * k, 42, UdpAB),
         Tagged(Record(bigend, 0, 2 * k, Len(UdpAdQ), UdpAdQ), TagsAdQ),
         Tagged(Record(bigend, 0, 2 * k, Len(UdpMimQ), UdpMimQ), TagsMimQ),
         Kind(Record(bigend, 0, 1 * k, 1500, UdpAB), "truncated"),
         Kind(Record(bigend, 0, 1 * k, 42, BadIPFrame), "badip"),
         Kind(Item(SubSeq(PcapRecord(bigend, 0, 1 * k, 42, UdpAB), 1, 30), FALSE), "cut"),
         EndOfFile }

\* The blocks the file being read may hold at the current position.
FileItems ==
    IF ng THEN NgItems(be)
    ELSE IF ifs = << >> THEN {EndOfFile}
    ELSE PcapItems(be, ifs[1].time_units = NanoDen)

\* The stream delivers item x next: nothing after the end of the file, and
\* at most MaxBlocks blocks in a file.
Delivers(x) == (eof \/ h_blocks >= MaxBlocks) => x = EndOfFile

(***************************************************************************)
(* The call of readIP and the iterations of its loop.                      *)
(***************************************************************************)
ClearOutputs ==
    /\ packet' = NoPacket
    /\ vlans' = << >>
    /\ timestamp' = NoTimestamp

\* Entry of PcapFile::readIP: outputs cleared, then refused or into the loop.
EnterReadIP ==
    /\ ClearOutputs
    /\ IF ReadRefused
       THEN pc' = "idle" /\ ret' = FALSE
       ELSE pc' = "file" /\ ret' = ret

\* One iteration of the loop of PcapFile::readIP on the next block of the
\* file.  viaFilter: the call comes from PcapFilter::readIP.
LoopBody(x, viaFilter, r, p) ==
    /\ pc = "file"
    /\ Delivers(x)
    /\ eof' = (eof \/ r.eof)
    /\ error' = (r.res = "error")
    /\ SetFormat(r.fmt)
    /\ file_size' = file_size + r.used
    /\ packet_count' = packet_count + r.count
    /\ h_blocks' = IF x = EndOfFile THEN h_blocks ELSE h_blocks + 1
    /\ h_frames' = IF x.bearing THEN h_frames + 1 ELSE h_frames
    /\ h_last' = Written(x, h_last)
    /\ UNCHANGED <<in_open, filterVars, h_opens, h_stop, h_learned, h_ok, h_op, conv, tlvVars>>
    /\ IF r.res = "frame"
       THEN /\ packets_size' = packets_size + r.cap_size
            /\ first_timestamp' = p.t.stamps.first
            /\ last_timestamp' = p.t.stamps.last
            /\ h_min' = IF p.t.real /\ p.t.adj >= 0 /\ (h_min < 0 \/ p.t.adj < h_min)
                        THEN p.t.adj ELSE h_min
            /\ h_first' = IF p.t.real /\ p.t.adj >= 0 /\ h_first < 0 THEN p.t.adj ELSE h_first
            /\ h_ordered' = (h_ordered /\ (p.t.real /\ last_timestamp # NoTimestamp
                                             => p.t.adj >= last_timestamp))
       ELSE UNCHANGED <<packets_size, first_timestamp, last_timestamp,
                        h_min, h_first, h_ordered>>
    /\ IF r.res = "frame" /\ p.d.pk.valid
       THEN /\ ip_packet_count' = ip_packet_count + 1
            /\ ip_packets_size' = ip_packets_size + p.d.ip_size
            /\ packet' = p.d.pk
            /\ vlans' = p.d.vlans
            /\ timestamp' = p.t.adj
            /\ pc' = IF viaFilter THEN "filter" ELSE "idle"
            /\ ret' = IF viaFilter THEN ret ELSE TRUE
            /\ h_returned' = IF viaFilter THEN h_returned
                              ELSE Append(h_returned, packet_count')
       ELSE /\ UNCHANGED <<ip_packet_count, ip_packets_size>>
            /\ ClearOutputs
            /\ h_returned' = h_returned
            /\ pc' = IF r.res = "error" THEN "idle" ELSE "file"
            /\ ret' = IF r.res = "error" THEN FALSE ELSE ret

FileLoop(x, viaFilter) ==
    \E r \in {ReadBlock(x.bytes)} :
        \E p \in {IF r.res = "frame" THEN ProcessFrame(r) ELSE << >>} :
            LoopBody(x, viaFilter, r, p)

\* A caller invokes PcapFile::readIP directly.
FileReadIP ==
    /\ pc = "idle"
    /\ EnterReadIP
    /\ h_op' = IF ReadRefused THEN "refused" ELSE "readIP"
    /\ UNCHANGED <<fileVars, filterVars, h_opens, h_blocks, h_frames, h_min, h_first,
                   h_ordered, h_stop, h_learned, h_last, h_returned, h_ok, conv, tlvVars>>

FileStep == pc = "file" /\ \E x \in FileItems : FileLoop(x, FALSE)

Next == Open \/ Close \/ FileReadIP \/ FileStep

Spec == Init /\ [][Next]_vars

(***************************************************************************)
(* The timestamp conversion of readIP on 64-bit values.                    *)
(***************************************************************************)
\* a * 10^12 + b * 10^6 + c.
Decimal(a, b, c) ==
    BigAdd(MulSmall(BigAdd(MulSmall(BigOf(a), 1000000), BigOf(b)), 1000000), BigOf(c))

\* The if_tsresol codes of the interfaces: 10^0, 10^3, 10^6, 10^9, 10^12 and
\* 2^0, 2^6, 2^7, 2^10, 2^20, 2^30 ticks per second.
Resolutions == {0, 3, 6, 9, 12, 128, 134, 135, 138, 148, 158}

\* The 64-bit timestamps of the packet blocks.
RawValues ==
    { << >>, BigOf(1), BigOf(1999),
      Decimal(0, 9223372, 36854),                         \* largest with raw * 10^6 < 2^63
      Decimal(0, 9223372, 36855),
      ShiftLeft(<<1>>, 44),
      BigAdd(ShiftLeft(BigOf(1800000000), 20), <<1>>),    \* in 2027, in ticks of 2^-20 s
      Decimal(1234567, 890123, 456789),
      BigSub(Two63, <<1>>), Two63, BigSub(Two64, <<1>>) }

\* readIP converts the timestamp raw of a packet block on an interface of
\* resolution code resol.
Convert ==
    /\ pc = "idle"
    /\ \E raw \in RawValues, resol \in Resolutions :
           \E o \in NgTimestamp64(resol, raw) :
               conv' = [resol |-> resol, raw |-> raw, path |-> o.path, out |-> o.out,
                        fits |-> o.fits]
    /\ UNCHANGED <<fileVars, filterVars, callVars, histVars, tlvVars>>

NextTime == Convert

SpecTime == Init /\ [][NextTime]_vars

(***************************************************************************)
(* ts::tlv::Connection: receiveMessage on a connection used by one thread  *)
(* at a time.  TCPConnection (connect, receive, send, disconnect) and      *)
(* MessageFactory are not among the source files: a receive delivers the   *)
(* next message of the peer or fails, a message is valid or not, a send    *)
(* succeeds or fails, and a failed receive or send may leave the           *)
(* connection broken.                                                      *)
(***************************************************************************)
\* Messages received on one connection, connections made, threshold values.
MaxMessages == 4
MaxConnects == 2
MaxInvalid == 3

pcapVars == <<fileVars, filterVars, callVars, conv, histVars>>

\* The connection is established: handleConnected.
handleConnected ==
    /\ rpc = "idle"
    /\ ~connected
    /\ h_conn.connects < MaxConnects
    /\ connected' = TRUE
    /\ invalid_msg_count' = 0
    /\ h_conn' = [NoTraffic EXCEPT !.connects = h_conn.connects + 1]
    /\ UNCHANGED <<auto_error_response, max_invalid_msg, rpc, rret, pcapVars, threadVars>>

setAutoErrorResponse(on) ==
    /\ rpc = "idle"
    /\ auto_error_response' = on
    /\ UNCHANGED <<connected, max_invalid_msg, invalid_msg_count, rpc, rret, h_conn, pcapVars, threadVars>>

setMaxInvalidMessages(n) ==
    /\ rpc = "idle"
    /\ max_invalid_msg' = n
    /\ UNCHANGED <<connected, auto_error_response, invalid_msg_count, rpc, rret, h_conn,
                   pcapVars, threadVars>>

\* A caller invokes receiveMessage.
receiveMessage ==
    /\ rpc = "idle"
    /\ rpc' = "loop"
    /\ h_conn' = [h_conn EXCEPT !.invalid = 0, !.responses = 0, !.cause = "none"]
    /\ UNCHANGED <<connected, auto_error_response, max_invalid_msg, invalid_msg_count, rret,
                   pcapVars, threadVars>>

\* The header or the payload cannot be received; broken: the connection was
\* lost.
ReceiveFails(broken) ==
    /\ rpc' = "idle"
    /\ rret' = FALSE
    /\ connected' = (connected /\ ~broken)
    /\ h_conn' = [h_conn EXCEPT !.cause = "receive"]
    /\ UNCHANGED invalid_msg_count

\* What the peer has sent and got after one more message of kind m, answered
\* by an error response or not.
Traffic(m, answered) ==
    [h_conn EXCEPT !.received = @ + 1,
                   !.last = m,
                   !.consecutive = IF m = "invalid" THEN @ + 1 ELSE 0,
                   !.invalid = IF m = "invalid" THEN @ + 1 ELSE @,
                   !.responses = IF answered THEN @ + 1 ELSE @]

\* A valid message was received.
ValidMessage ==
    /\ invalid_msg_count' = 0
    /\ rpc' = "idle"
    /\ rret' = TRUE
    /\ connected' = connected
    /\ h_conn' = [Traffic("valid", FALSE) EXCEPT !.cause = "valid"]

\* The threshold test ignored: never disconnected for invalid messages.
TooManyInvalidNever(count) == FALSE

\* The invalid message max has been reached.
TooManyInvalid(count) == max_invalid_msg > 0 /\ count >= max_invalid_msg

\* No error response is ever sent.
AnswersNever(m) == FALSE

\* An error response is sent back for message m.
Answers(m) == m = "invalid" /\ auto_error_response

\* An invalid message was received; sent: the error response could be sent;
\* broken: the connection was lost while sending.
InvalidMessage(sent, broken) ==
    /\ invalid_msg_count' = invalid_msg_count + 1
    /\ IF Answers("invalid") /\ ~sent
       THEN /\ rpc' = "idle"
            /\ rret' = FALSE
            /\ connected' = (connected /\ ~broken)
            /\ h_conn' = [Traffic("invalid", FALSE) EXCEPT !.cause = "send"]
       ELSE IF TooManyInvalid(invalid_msg_count + 1)
       THEN /\ rpc' = "idle"
            /\ rret' = FALSE
            /\ connected' = FALSE
            /\ h_conn' = [Traffic("invalid", Answers("invalid")) EXCEPT !.cause = "invalid"]
       ELSE /\ rpc' = "loop"
            /\ rret' = rret
            /\ connected' = connected
            /\ h_conn' = Traffic("invalid", Answers("invalid"))

\* One iteration of the loop of receiveMessage.  m: what the receive gives
\* ("none": it fails); sent: the result of sending the error response, when
\* one is sent; broken: the connection is lost by the failed receive or send.
ReceiveLoop(m, sent, broken) ==
    /\ rpc = "loop"
    /\ (~connected \/ h_conn.received >= MaxMessages) => m = "none"
    /\ (m # "invalid" \/ ~auto_error_response) => sent
    /\ broken => (m = "none" \/ ~sent)
    /\ IF m = "none" THEN ReceiveFails(broken)
       ELSE IF m = "valid" THEN ValidMessage
       ELSE InvalidMessage(sent, broken)
    /\ UNCHANGED <<auto_error_response, max_invalid_msg, pcapVars, threadVars>>

NextTlv ==
    \/ handleConnected
    \/ \E on \in BOOLEAN : setAutoErrorResponse(on)
    \/ \E n \in 0 .. MaxInvalid : setMaxInvalidMessages(n)
    \/ receiveMessage
    \/ \E m \in {"valid", "invalid", "none"}, sent, broken \in BOOLEAN :
           ReceiveLoop(m, sent, broken)

SpecTlv == Init /\ [][NextTlv]_vars

(***************************************************************************)
(* ts::tlv::Connection<ThreadSafety::Full> used by several threads at      *)
(* once.  Each thread is in sendMessage or in receiveMessage; a step is    *)
(* one lock, one call of the transport or one access to a member.  The     *)
(* transport moves a message in two parts: header and payload on           *)
(* reception (two calls of receive), two halves of the bytes on emission   *)
(* (one call of send, which may write them in several pieces).  A call of  *)
(* the transport that fails has lost the connection.                       *)
(***************************************************************************)
\* Messages the peer sends on a connection.
MaxIncoming == 2
\* Calls of sendMessage made by the application.
MaxOutgoing == 1

singleVars == <<rpc, rret, h_conn, pcapVars>>

At(t, p) == tpc' = [tpc EXCEPT ![t] = p]

ThreadsIdle == \A t \in Threads : tpc[t] = "idle"

\* The null mutex of a connection that is not thread-safe: always free.
MutexFreeNull(mutex) == TRUE

\* std::lock_guard on the mutex of ThreadSafety::Full: the constructor
\* returns when no thread holds the mutex.
MutexFree(mutex) == mutex = NoThread

\* The TCP connection is established (once), the connection being configured.
threadConnect ==
    /\ ThreadsIdle
    /\ ~connected
    /\ h_wire = NoWire
    /\ connected' = TRUE
    /\ invalid_msg_count' = 0
    /\ UNCHANGED <<auto_error_response, max_invalid_msg, send_mutex, receive_mutex, tpc,
                   tloc, h_wire, singleVars>>

\* The setters, called before the connection is used.
threadConfigure ==
    /\ ThreadsIdle
    /\ ~connected
    /\ h_wire = NoWire
    /\ \E on \in BOOLEAN, n \in 0 .. 1 :
           /\ auto_error_response' = on
           /\ max_invalid_msg' = n
    /\ UNCHANGED <<connected, invalid_msg_count, threadVars, singleVars>>

\* Thread t calls receiveMessage.
threadReceiveMessage(t) ==
    /\ tpc[t] = "idle"
    /\ At(t, "rlock")
    /\ tloc' = [tloc EXCEPT ![t] = NoLocals]
    /\ UNCHANGED <<connected, auto_error_response, max_invalid_msg, invalid_msg_count,
                   send_mutex, receive_mutex, h_wire, singleVars>>

\* std::lock_guard lock(_receive_mutex).
LockReceive(t) ==
    /\ tpc[t] = "rlock"
    /\ MutexFree(receive_mutex)
    /\ receive_mutex' = t
    /\ At(t, "header")
    /\ UNCHANGED <<connected, auto_error_response, max_invalid_msg, invalid_msg_count,
                   send_mutex, tloc, h_wire, singleVars>>

\* A call of the transport failed in thread t: the connection is lost, the
\* function returns false (the lock_guard releases the mutex it holds).
TransportFails(t) ==
    /\ connected' = FALSE
    /\ At(t, "idle")
    /\ UNCHANGED <<invalid_msg_count, tloc, h_wire>>

\* SuperClass::receive of the message header.
ReceiveHeader(t, ok) ==
    /\ tpc[t] = "header"
    /\ ok => connected /\ h_wire.in_pos < 2 * MaxIncoming
    /\ IF ok
       THEN /\ h_wire' = [h_wire EXCEPT !.in_pos = @ + 1,
                                        !.in_reader = t,
                                        !.in_torn = @ \/ h_wire.in_pos % 2 # 0]
            /\ At(t, "payload")
            /\ UNCHANGED <<connected, receive_mutex, invalid_msg_count, tloc>>
       ELSE TransportFails(t) /\ receive_mutex' = NoThread
    /\ UNCHANGED <<auto_error_response, max_invalid_msg, send_mutex, singleVars>>

\* SuperClass::receive of the message payload, then the end of the locked
\* block; kind: what MessageFactory will find in the bytes.
ReceivePayload(t, ok, kind) ==
    /\ tpc[t] = "payload"
    /\ ok => connected
    /\ IF ok
       THEN /\ h_wire' = [h_wire EXCEPT !.in_pos = @ + 1,
                                        !.in_reader = t,
                                        !.in_by = @ \cup {t},
                                        !.in_torn = \/ @
                                                    \/ h_wire.in_pos % 2 # 1
                                                    \/ h_wire.in_reader # t]
            /\ tloc' = [tloc EXCEPT ![t].kind = kind]
            /\ At(t, "analyze")
            /\ UNCHANGED <<connected, invalid_msg_count>>
       ELSE TransportFails(t)
    /\ receive_mutex' = NoThread
    /\ UNCHANGED <<auto_error_response, max_invalid_msg, send_mutex, singleVars>>

\* mf.errorStatus(): a valid message is returned; for an invalid one the
\* counter is read (first half of _invalid_msg_count++).
AnalyzeMessage(t) ==
    /\ tpc[t] = "analyze"
    /\ IF tloc[t].kind = "valid"
       THEN /\ invalid_msg_count' = 0
            /\ At(t, "idle")
            /\ tloc' = tloc
       ELSE /\ tloc' = [tloc EXCEPT ![t].count = invalid_msg_count]
            /\ At(t, "store")
            /\ invalid_msg_count' = invalid_msg_count
    /\ UNCHANGED <<connected, auto_error_response, max_invalid_msg, send_mutex,
                   receive_mutex, h_wire, singleVars>>

\* Second half of _invalid_msg_count++, then the test of _auto_error_response.
StoreCount(t) ==
    /\ tpc[t] = "store"
    /\ invalid_msg_count' = tloc[t].count + 1
    /\ IF Answers(tloc[t].kind)
       THEN At(t, "slock") /\ tloc' = [tloc EXCEPT ![t].resume = "check"]
       ELSE At(t, "check") /\ tloc' = tloc
    /\ UNCHANGED <<connected, auto_error_response, max_invalid_msg, send_mutex,
                   receive_mutex, h_wire, singleVars>>

\* The test of the invalid message max, then the next turn of the loop.
CheckMax(t) ==
    /\ tpc[t] = "check"
    /\ IF TooManyInvalid(invalid_msg_count)
       THEN connected' = FALSE /\ At(t, "idle")
       ELSE connected' = connected /\ At(t, "rlock")
    /\ UNCHANGED <<auto_error_response, max_invalid_msg, invalid_msg_count, send_mutex,
                   receive_mutex, tloc, h_wire, singleVars>>

\* Thread t calls sendMessage.
threadSendMessage(t) ==
    /\ tpc[t] = "idle"
    /\ h_wire.out_pos < 2 * MaxOutgoing
    /\ At(t, "slock")
    /\ tloc' = [tloc EXCEPT ![t] = NoLocals]
    /\ UNCHANGED <<connected, auto_error_response, max_invalid_msg, invalid_msg_count,
                   send_mutex, receive_mutex, h_wire, singleVars>>

\* std::lock_guard lock(_send_mutex), the message being serialized.
LockSend(t) ==
    /\ tpc[t] = "slock"
    /\ MutexFree(send_mutex)
    /\ send_mutex' = t
    /\ At(t, "send1")
    /\ UNCHANGED <<connected, auto_error_response, max_invalid_msg, invalid_msg_count,
                   receive_mutex, tloc, h_wire, singleVars>>

\* SuperClass::send: the first half of the bytes.
SendFirst(t, ok) ==
    /\ tpc[t] = "send1"
    /\ ok => connected
    /\ IF ok
       THEN /\ h_wire' = [h_wire EXCEPT !.out_pos = @ + 1,
                                        !.out_writer = t,
                                        !.out_torn = @ \/ h_wire.out_pos % 2 # 0]
            /\ At(t, "send2")
            /\ UNCHANGED <<connected, send_mutex, invalid_msg_count, tloc>>
       ELSE TransportFails(t) /\ send_mutex' = NoThread
    /\ UNCHANGED <<auto_error_response, max_invalid_msg, receive_mutex, singleVars>>

\* SuperClass::send: the second half of the bytes, then the return of
\* sendMessage, to the application or into receiveMessage.
SendSecond(t, ok) ==
    /\ tpc[t] = "send2"
    /\ ok => connected
    /\ IF ok
       THEN /\ h_wire' = [h_wire EXCEPT !.out_pos = @ + 1,
                                        !.out_writer = t,
                                        !.out_by = @ \cup {t},
                                        !.out_torn = \/ @
                                                     \/ h_wire.out_pos % 2 # 1
                                                     \/ h_wire.out_writer # t]
            /\ At(t, tloc[t].resume)
            /\ UNCHANGED <<connected, invalid_msg_count, tloc>>
       ELSE TransportFails(t)
    /\ send_mutex' = NoThread
    /\ UNCHANGED <<auto_error_response, max_invalid_msg, receive_mutex, singleVars>>

ThreadStep(t) ==
    \/ threadReceiveMessage(t)
    \/ LockReceive(t)
    \/ \E ok \in BOOLEAN : ReceiveHeader(t, ok)
    \/ \E ok \in BOOLEAN, kind \in {"valid", "invalid"} : ReceivePayload(t, ok, kind)
    \/ AnalyzeMessage(t)
    \/ StoreCount(t)
    \/ CheckMax(t)
    \/ threadSendMessage(t)
    \/ LockSend(t)
    \/ \E ok \in BOOLEAN : SendFirst(t, ok)
    \/ \E ok \in BOOLEAN : SendSecond(t, ok)

NextThreads ==
    \/ threadConnect
    \/ threadConfigure
    \/ \E t \in Threads : ThreadStep(t)

SpecThreads == Init /\ [][NextThreads]_vars

(***************************************************************************)
(* PcapFilter: options, setters and readIP.                                *)
(***************************************************************************)
\* PcapFile::timeOffset.
timeOffset(ts) == IF ts < 0 \/ first_timestamp < 0 THEN 0 ELSE ts - first_timestamp

\* The final conditions with a packet number that ends the iteration only on
\* the first packet after the last one.
FinalConditionFirstAfterLast(w, count, ts) ==
    IF count = w.last_packet + 1 THEN "packet"
    ELSE IF ts > w.last_time THEN "time"
    ELSE IF timeOffset(ts) > w.last_time_offset THEN "offset"
    ELSE "none"

\* The final conditions of PcapFilter::readIP: the one that holds, if any.
FinalCondition(w, count, ts) ==
    IF count > w.last_packet THEN "packet"
    ELSE IF ts > w.last_time THEN "time"
    ELSE IF timeOffset(ts) > w.last_time_offset THEN "offset"
    ELSE "none"

\* The general filters without the one on the protocol.
GeneralFiltersAnyProtocol(w, protos, expected, count, pk, stack, ts) ==
    /\ count >= w.first_packet
    /\ ts >= w.first_time
    /\ timeOffset(ts) >= w.first_time_offset
    /\ VlanMatch(stack, expected)

\* The general filters without the one on the VLAN stack.
GeneralFiltersAnyVlan(w, protos, expected, count, pk, stack, ts) ==
    /\ protos = {} \/ pk.protocol \in protos
    /\ count >= w.first_packet
    /\ ts >= w.first_time
    /\ timeOffset(ts) >= w.first_time_offset

\* The general filters: TRUE when the packet is not dropped by any of them.
GeneralFilters(w, protos, expected, count, pk, stack, ts) ==
    /\ protos = {} \/ pk.protocol \in protos
    /\ count >= w.first_packet
    /\ ts >= w.first_time
    /\ timeOffset(ts) >= w.first_time_offset
    /\ VlanMatch(stack, expected)

\* addressFilterIsSet looking at the source only.
addressFilterIsSetSourceOnly ==
    /\ hasAddress(source)
    /\ (protocols = {} \/ IP_SUBPROTO_TCP \in protocols \/ IP_SUBPROTO_UDP \in protocols)
           => hasPort(source)

addressFilterIsSet ==
    /\ hasAddress(source)
    /\ hasAddress(destination)
    /\ (protocols = {} \/ IP_SUBPROTO_TCP \in protocols \/ IP_SUBPROTO_UDP \in protocols)
           => hasPort(source) /\ hasPort(destination)

\* The session test with the reverse direction always allowed.
SessionMatchBothWays(src, dst, s, d, bidir) ==
    IF SockMatch(src, s) /\ SockMatch(dst, d) THEN "forward"
    ELSE IF SockMatch(src, d) /\ SockMatch(dst, s) THEN "reverse"
    ELSE "none"

\* The session a packet src -> dst belongs to, for the filter s -> d.
SessionMatch(src, dst, s, d, bidir) ==
    IF SockMatch(src, s) /\ SockMatch(dst, d) THEN "forward"
    ELSE IF bidir /\ SockMatch(src, d) /\ SockMatch(dst, s) THEN "reverse"
    ELSE "none"

\* Nothing is learned from an accepted packet.
LearnedNothing(dir, src, dst) == [source |-> source, destination |-> destination]

\* The addresses learned from an accepted packet src -> dst.
Learned(dir, src, dst) ==
    IF dir = "forward" THEN [source |-> src, destination |-> dst]
    ELSE [source |-> dst, destination |-> src]

\* The stop on a final condition reported as the reader's own error.
FilterStopLatches(fin) ==
    /\ pc' = "idle"
    /\ ret' = FALSE
    /\ h_stop' = fin
    /\ error' = TRUE
    /\ UNCHANGED <<in_open, format, counters, eof, filterVars, packet, vlans, timestamp,
                   h_opens, h_blocks, h_frames, h_min, h_first, h_ordered, h_learned,
                   h_last, h_returned, h_ok, h_op, conv, tlvVars>>

\* A final condition holds: readIP returns false, its outputs as read.
FilterStop(fin) ==
    /\ pc' = "idle"
    /\ ret' = FALSE
    /\ h_stop' = fin
    /\ UNCHANGED <<fileVars, filterVars, packet, vlans, timestamp,
                   h_opens, h_blocks, h_frames, h_min, h_first, h_ordered, h_learned,
                   h_last, h_returned, h_ok, h_op, conv, tlvVars>>

\* The packet is dropped: back to PcapFile::readIP for the next one.
FilterContinue ==
    /\ EnterReadIP
    /\ UNCHANGED <<fileVars, filterVars, histVars, conv, tlvVars>>

\* The packet is returned; the addresses are learned when some are unspecified.
FilterAccept(l, unspecified) ==
    /\ pc' = "idle"
    /\ ret' = TRUE
    /\ source' = IF unspecified THEN l.source ELSE source
    /\ destination' = IF unspecified THEN l.destination ELSE destination
    /\ h_learned' = (h_learned \/ unspecified)
    /\ h_returned' = Append(h_returned, packet_count)
    /\ UNCHANGED <<fileVars, opt, protocols, bidirectional_filter, wildcard_filter, window,
                   packet, vlans, timestamp,
                   h_opens, h_blocks, h_frames, h_min, h_first, h_ordered, h_stop, h_last,
                   h_ok, h_op, conv, tlvVars>>

FilterDecision(fin, pass, dir) ==
    IF fin # "none" THEN FilterStop(fin)
    ELSE IF ~pass \/ dir = "none" THEN FilterContinue
    ELSE FilterAccept(Learned(dir, packet.source, packet.destination),
                      ~wildcard_filter /\ ~addressFilterIsSet)

\* PcapFilter::readIP after the superclass returned a packet.
FilterCheck ==
    /\ pc = "filter"
    /\ FilterDecision(FinalCondition(window, packet_count, timestamp),
                      GeneralFilters(window, protocols, opt.vlans, packet_count,
                                     packet, vlans, timestamp),
                      SessionMatch(packet.source, packet.destination,
                                   source, destination, bidirectional_filter))

\* A caller invokes PcapFilter::readIP.
FilterReadIP ==
    /\ pc = "idle"
    /\ EnterReadIP
    /\ h_op' = IF ReadRefused THEN "refused" ELSE "readIP"
    /\ UNCHANGED <<fileVars, filterVars, h_opens, h_blocks, h_frames, h_min, h_first,
                   h_ordered, h_stop, h_learned, h_last, h_returned, h_ok, conv, tlvVars>>

\* PcapFilter::loadArgs with the options o of the command line.
LoadArgs(o) ==
    /\ pc = "idle"
    /\ ~in_open
    /\ opt' = o
    /\ h_op' = "loadArgs"
    /\ UNCHANGED <<fileVars, protocols, source, destination, bidirectional_filter,
                   wildcard_filter, window, callVars,
                   h_opens, h_blocks, h_frames, h_min, h_first, h_ordered, h_stop, h_learned, h_last, h_returned, h_ok, conv, tlvVars>>

\* The setters are called on an open file, between two calls of readIP.
Setter ==
    /\ pc = "idle"
    /\ in_open
    /\ h_op' = "set"
    /\ h_learned' = FALSE
    /\ UNCHANGED <<fileVars, opt, window, callVars,
                   h_opens, h_blocks, h_frames, h_min, h_first, h_ordered, h_stop, h_last, h_returned, h_ok, conv, tlvVars>>

setProtocolFilterTCP ==
    /\ Setter
    /\ protocols' = {IP_SUBPROTO_TCP}
    /\ UNCHANGED <<source, destination, bidirectional_filter, wildcard_filter>>

setProtocolFilterUDP ==
    /\ Setter
    /\ protocols' = {IP_SUBPROTO_UDP}
    /\ UNCHANGED <<source, destination, bidirectional_filter, wildcard_filter>>

setProtocolFilter(ps) ==
    /\ Setter
    /\ protocols' = ps
    /\ UNCHANGED <<source, destination, bidirectional_filter, wildcard_filter>>

clearProtocolFilter ==
    /\ Setter
    /\ protocols' = {}
    /\ UNCHANGED <<source, destination, bidirectional_filter, wildcard_filter>>

setSourceFilter(addr) ==
    /\ Setter
    /\ source' = addr
    /\ bidirectional_filter' = FALSE
    /\ UNCHANGED <<protocols, destination, wildcard_filter>>

setDestinationFilter(addr) ==
    /\ Setter
    /\ destination' = addr
    /\ bidirectional_filter' = FALSE
    /\ UNCHANGED <<protocols, source, wildcard_filter>>

setBidirectionalFilter(addr1, addr2) ==
    /\ Setter
    /\ source' = addr1
    /\ destination' = addr2
    /\ bidirectional_filter' = TRUE
    /\ UNCHANGED <<protocols, wildcard_filter>>

setWildcardFilter(on) ==
    /\ Setter
    /\ wildcard_filter' = on
    /\ UNCHANGED <<protocols, source, destination, bidirectional_filter>>

(***************************************************************************)
(* The filter on a pcap file (little endian, microseconds, Ethernet):      *)
(* windows, protocols and VLAN ids.                                        *)
(***************************************************************************)
FilterHeaders == { PcapFileHeader(PCAP_MAGIC_LE, FALSE, LINKTYPE_ETHERNET) }

TcpAB == EtherFrame(ETHERTYPE_IPv4, IPv4Datagram(IP_SUBPROTO_TCP, HostA, 1234, HostB, 80))

\* UdpAB behind the VLAN tags 100, 200 and behind the tags 100, 300, 200.
UdpVlan12 ==
    EtherFrame(ETHERTYPE_802_1Q,
               VlanTag(100, ETHERTYPE_802_1Q) \o VlanTag(200, ETHERTYPE_IPv4)
                   \o IPv4Datagram(IP_SUBPROTO_UDP, HostA, 1234, HostB, 80))

UdpVlan132 ==
    EtherFrame(ETHERTYPE_802_1AD,
               VlanTag(100, ETHERTYPE_802_1Q) \o VlanTag(300, ETHERTYPE_802_1Q)
                   \o VlanTag(200, ETHERTYPE_IPv4)
                   \o IPv4Datagram(IP_SUBPROTO_UDP, HostA, 1234, HostB, 80))

FilterRecord(usec, frame) == Item(PcapRecord(FALSE, 0, usec, Len(frame), frame), TRUE)

WindowItems ==
    { FilterRecord(1, UdpAB), FilterRecord(2, UdpAB), FilterRecord(3, UdpAB),
      FilterRecord(2, TcpAB), FilterRecord(2, UdpVlan12), FilterRecord(2, UdpVlan132),
      EndOfFile }

\* The command lines of the model: no option, --first-packet 2 --last-packet 2,
\* --last-packet 1, --first-date and --last-date at 2 microseconds,
\* --first-timestamp 1 --last-timestamp 1, --vlan-id 100 --vlan-id 200,
\* --vlan-id 200 --vlan-id 100.
WindowOptions ==
    { DefaultOptions,
      [DefaultOptions EXCEPT !.first_packet = 2, !.last_packet = 2],
      [DefaultOptions EXCEPT !.last_packet = 1],
      [DefaultOptions EXCEPT !.first_time = 2, !.last_time = 2],
      [DefaultOptions EXCEPT !.first_time_offset = 1, !.last_time_offset = 1],
      [DefaultOptions EXCEPT !.vlans = <<VLANId(ETHERTYPE_NULL, 100), VLANId(ETHERTYPE_NULL, 200)>>],
      [DefaultOptions EXCEPT !.vlans = <<VLANId(ETHERTYPE_NULL, 200), VLANId(ETHERTYPE_NULL, 100)>>] }

WindowStep == pc = "file" /\ \E x \in WindowItems : FileLoop(x, TRUE)

NextWindow ==
    \/ OpenAny(FilterHeaders)
    \/ Close
    \/ \E o \in WindowOptions : LoadArgs(o)
    \/ setProtocolFilterTCP
    \/ setProtocolFilterUDP
    \/ clearProtocolFilter
    \/ FilterReadIP
    \/ WindowStep
    \/ FilterCheck

SpecWindow == Init /\ [][NextWindow]_vars

(***************************************************************************)
(* The filter on a pcap file: addresses, directions and learning.          *)
(***************************************************************************)
UdpBA == EtherFrame(ETHERTYPE_IPv4, IPv4Datagram(IP_SUBPROTO_UDP, HostB, 80, HostA, 1234))
UdpCB == EtherFrame(ETHERTYPE_IPv4, IPv4Datagram(IP_SUBPROTO_UDP, HostC, 9, HostB, 80))
IcmpAB == EtherFrame(ETHERTYPE_IPv4, IPv4Datagram(IP_SUBPROTO_ICMP, HostA, 0, HostB, 0))

FlowItems ==
    { FilterRecord(1, UdpAB), FilterRecord(1, UdpBA), FilterRecord(1, UdpCB),
      FilterRecord(1, IcmpAB), EndOfFile }

\* The addresses given to the setters.
FlowAddresses == { AnySocketAddress, SocketAddress(HostA, 1234), SocketAddress(HostB, AnyPort) }

\* The command lines of the model: no option, --last-packet 2.
FlowOptions == { DefaultOptions, [DefaultOptions EXCEPT !.last_packet = 2] }

FlowStep == pc = "file" /\ \E x \in FlowItems : FileLoop(x, TRUE)

NextFlow ==
    \/ OpenAny(FilterHeaders)
    \/ Close
    \/ \E o \in FlowOptions : LoadArgs(o)
    \/ \E a \in FlowAddresses : setSourceFilter(a)
    \/ \E a \in FlowAddresses : setDestinationFilter(a)
    \/ \E a, b \in FlowAddresses : setBidirectionalFilter(a, b)
    \/ \E on \in BOOLEAN : setWildcardFilter(on)
    \/ \E ps \in {{IP_SUBPROTO_ICMP}, {}} : setProtocolFilter(ps)
    \/ FilterReadIP
    \/ FlowStep
    \/ FilterCheck

SpecFlow == Init /\ [][NextFlow]_vars

(***************************************************************************)
(* The filter on a pcap-ng file, without any option: packets with and      *)
(* without a timestamp.                                                    *)
(***************************************************************************)
UntimedHeaders == { NgSectionHeader(FALSE) }

\* An interface, a Simple-Packet block (no timestamp) and two Enhanced-Packet
\* blocks, stamped 1 and 2 microseconds.
UntimedItems ==
    { Framed(Kind(Item(InterfaceBlock(FALSE, LINKTYPE_ETHERNET, << >>), FALSE), "interface")),
      Framed(OnInterface(Item(SimplePacket(FALSE, 42, UdpAB), TRUE), 0)),
      Framed(OnInterface(Item(EnhancedPacket(FALSE, 0, 1, 42, UdpAB), TRUE), 0)),
      Framed(OnInterface(Item(EnhancedPacket(FALSE, 0, 2, 42, UdpAB), TRUE), 0)),
      EndOfFile }

UntimedStep == pc = "file" /\ \E x \in UntimedItems : FileLoop(x, TRUE)

NextUntimed ==
    \/ OpenAny(UntimedHeaders)
    \/ Close
    \/ FilterReadIP
    \/ UntimedStep
    \/ FilterCheck

SpecUntimed == Init /\ [][NextUntimed]_vars

(***************************************************************************)
(* The loops of readIP that run on: the filter on finite files of every    *)
(* format.  A call that has started executes its next iteration.           *)
(***************************************************************************)
LiveHeaders ==
    { PcapFileHeader(PCAP_MAGIC_LE, FALSE, LINKTYPE_ETHERNET),
      NgSectionHeader(FALSE) }

\* Blocks that are skipped, blocks that yield a datagram, blocks that fail.
LiveItems ==
    IF ng
    THEN { Framed(Kind(Item(InterfaceBlock(FALSE, LINKTYPE_ETHERNET, << >>), FALSE),
                       "interface")),
           Framed(OnInterface(Item(EnhancedPacket(FALSE, 0, 1, 42, UdpAB), TRUE), 0)),
           Framed(OnInterface(Kind(Item(EnhancedPacket(FALSE, 0, 1, 42, ArpFrame), TRUE),
                                   "notip"), 0)),
           Framed(Item(NgBlock(FALSE, 5, Zeros(8)), FALSE)),
           Framed(Section(Item(NgSectionHeader(FALSE), FALSE), FALSE)),
           Kind(Item(Put32(FALSE, PCAPNG_ENHANCED_PACKET) \o Put32(FALSE, 64) \o Zeros(8),
                     FALSE), "cut"),
           EndOfFile }
    ELSE { FilterRecord(1, UdpAB),
           Kind(FilterRecord(1, BadIPFrame), "badip"),
           EndOfFile }

LiveStep == pc = "file" /\ \E x \in LiveItems : FileLoop(x, TRUE)

NextLive ==
    \/ OpenAny(LiveHeaders)
    \/ Close
    \/ setProtocolFilterTCP
    \/ FilterReadIP
    \/ LiveStep
    \/ FilterCheck

SpecLive == Init /\ [][NextLive]_vars /\ WF_vars(LiveStep) /\ WF_vars(FilterCheck)

(***************************************************************************)
(* Properties of the reader (specification Spec).                          *)
(***************************************************************************)
\* C1: once the error flag is set, every later step on the same open file
\* (a readIP, or a close) leaves the counters, the timestamps and the position
\* in the input as they are, keeps the flag set, and a readIP returns false at
\* once; only a new open() ends this.
C1_ErrorIsLatched ==
    [][(error /\ h_opens' = h_opens)
         => /\ counters' = counters
            /\ h_blocks' = h_blocks
            /\ eof' = eof
            /\ error'
            /\ pc' = "idle"
            /\ (in_open' = in_open => ret' = FALSE)]_vars

\* A readIP was refused on a file that is open, in error, with input left
\* and packets already counted.
C1_Witness ==
    /\ h_op = "refused"
    /\ in_open
    /\ error
    /\ ~eof
    /\ packet_count > 0
    /\ ret = FALSE

\* C2: the count of IP packets never exceeds the count of captured packets.
C2_IPCountBounded == ip_packet_count <= packet_count

\* Captured packets of which some, but not all, held a valid IP datagram.
C2_Witness == ip_packet_count >= 1 /\ packet_count > ip_packet_count

\* C3 as stated: when both timestamps are set, the first is not after the last.
C3_FirstNotAfterLast ==
    (first_timestamp >= 0 /\ last_timestamp >= 0) => first_timestamp <= last_timestamp

\* C3 amended: when the timestamps recorded so far came in non-decreasing
\* order and both timestamps are set, the first is not after the last.
C3_FirstNotAfterLastInOrder ==
    (h_ordered /\ first_timestamp >= 0 /\ last_timestamp >= 0)
        => first_timestamp <= last_timestamp

\* Two different timestamps recorded in increasing order.
C3_Witness == h_ordered /\ first_timestamp >= 0 /\ last_timestamp > first_timestamp

\* C4 as stated: the first timestamp is the smallest real timestamp of the
\* frames recorded so far, and both timestamps are none when there is none.
C4_FirstIsSmallest ==
    /\ h_min >= 0 => first_timestamp = h_min
    /\ h_min < 0 => first_timestamp < 0 /\ last_timestamp < 0

\* C4 amended: the first timestamp is the first real timestamp recorded, in
\* file order, and both timestamps are none when there is none.
C4_FirstIsFirstRecorded ==
    /\ h_first >= 0 => first_timestamp = h_first
    /\ h_first < 0 => first_timestamp < 0 /\ last_timestamp < 0

\* A later frame carried a smaller timestamp than the first one recorded.
C4_Witness == h_first >= 0 /\ h_min < h_first /\ first_timestamp = h_first

\* C5: when readIP has returned a packet, packetCount() is the 1-based rank of
\* the packet-bearing block it came from among those of the file.
C5_CountIsOrdinal == (pc = "idle" /\ h_op = "readIP" /\ ret) => packet_count = h_frames

\* The packet returned is the third packet-bearing block, the first valid IP
\* datagram after a frame that was skipped.
C5_Witness ==
    /\ pc = "idle"
    /\ h_op = "readIP"
    /\ ret
    /\ packet.valid
    /\ packet_count = 3
    /\ ip_packet_count < 3

(***************************************************************************)
(* Properties of the filter (specifications SpecWindow and SpecFlow).      *)
(***************************************************************************)
\* PcapFilter::readIP has just returned a packet.
Returned == pc = "idle" /\ h_op = "readIP" /\ ret

\* The step on which PcapFilter::readIP returns a packet.
Accepting == pc = "filter" /\ pc' = "idle" /\ ret'

\* C6: a packet returned by the filter's readIP lies within the three windows
\* (packet number, date, time offset; bounds inclusive) and, when the protocol
\* set is not empty, its protocol belongs to the set.
C6_ReturnedInWindows ==
    Returned =>
        /\ window.first_packet <= packet_count
        /\ packet_count <= window.last_packet
        /\ window.first_time <= timestamp
        /\ timestamp <= window.last_time
        /\ window.first_time_offset <= timeOffset(timestamp)
        /\ timeOffset(timestamp) <= window.last_time_offset
        /\ protocols # {} => packet.protocol \in protocols

\* A packet returned under a protocol set and a time-offset window, after an
\* earlier packet that was below the window.
C6_Witness ==
    /\ Returned
    /\ protocols = {IP_SUBPROTO_UDP}
    /\ window.first_time_offset = 1
    /\ timeOffset(timestamp) = 1
    /\ packet_count >= 2

\* C7 as stated: after a readIP that stopped on a window end, no readIP on
\* the same open file returns a packet.
C7_StopIsPermanent == (h_stop # "none" /\ pc = "idle") => ~ret

\* C7 amended: after a readIP that stopped on the last packet number, or on a
\* time bound in a file whose timestamps never decrease, no readIP on the same
\* open file returns a packet.
C7_StopIsPermanentInOrder ==
    ((h_stop = "packet" \/ (h_stop # "none" /\ h_ordered)) /\ pc = "idle") => ~ret

\* Three calls that each read one packet after the last date and stopped.
C7_Witness ==
    /\ h_stop = "time"
    /\ h_ordered
    /\ pc = "idle"
    /\ h_op = "readIP"
    /\ ~ret
    /\ first_timestamp > window.last_time
    /\ packet_count = 3

\* The ids e occur in the ids s in the same order, not necessarily adjacent.
IsSubsequence(e, s) ==
    \E f \in [1 .. Len(e) -> 1 .. Len(s)] :
        /\ \A i, j \in 1 .. Len(e) : i < j => f[i] < f[j]
        /\ \A i \in 1 .. Len(e) : s[f[i]] = e[i]

Ids(stack) == [i \in 1 .. Len(stack) |-> stack[i].id]

\* C8: the VLAN stack of a packet returned by the filter's readIP contains the
\* configured VLAN ids as a subsequence, outer to inner.
C8_VlanSubsequence == Returned => IsSubsequence(Ids(opt.vlans), Ids(vlans))

\* A packet returned with another tag between the two requested ones.
C8_Witness ==
    /\ Returned
    /\ Ids(opt.vlans) = <<100, 200>>
    /\ Ids(vlans) = <<100, 300, 200>>

\* An address or a port agrees with the one of the filter, or one is unset.
FieldMatches(x, f) == x = 0 \/ f = 0 \/ x = f

Matches(sa, f) == FieldMatches(sa.addr, f.addr) /\ FieldMatches(sa.port, f.port)

\* C9: a packet is returned only if, for the filter addresses as they were
\* when readIP was called, its source and destination match the source and
\* the destination of the filter, or the filter is bidirectional and they
\* match the other way round.
C9_ReturnedMatchesFilter ==
    [][Accepting
         => \/ Matches(packet.source, source) /\ Matches(packet.destination, destination)
            \/ /\ bidirectional_filter
               /\ Matches(packet.source, destination)
               /\ Matches(packet.destination, source)]_vars

\* A packet returned in the reverse direction of a bidirectional filter that
\* its forward direction rejects.
C9_Witness ==
    /\ Returned
    /\ bidirectional_filter
    /\ wildcard_filter
    /\ hasAddress(source)
    /\ packet.source.addr # source.addr
    /\ packet.destination = source

\* On a bidirectional filter without wildcard and without addresses, the
\* packet returned gives the filter its addresses.
LearnsTheFlow ==
    (Accepting /\ bidirectional_filter /\ ~wildcard_filter
         /\ source = AnySocketAddress /\ destination = AnySocketAddress)
        => source' = packet.source /\ destination' = packet.destination

\* The filter holds a flow: both addresses with their ports, no wildcard.
FlowFixed ==
    /\ bidirectional_filter
    /\ ~wildcard_filter
    /\ hasAddress(source) /\ hasPort(source)
    /\ hasAddress(destination) /\ hasPort(destination)

\* Same host, and the same port unless the packet has no port.
OfEndpoint(sa, f) == sa.addr = f.addr /\ (sa.port = f.port \/ ~hasPort(sa))

\* C10 as stated: the first packet returned fixes the flow a <-> b, and every
\* packet returned from then on goes from a to b or from b to a.
C10_OnlyTheLearnedFlow ==
    [][/\ LearnsTheFlow
       /\ (Accepting /\ FlowFixed)
            => /\ source' = source /\ destination' = destination
               /\ \/ packet.source = source /\ packet.destination = destination
                  \/ packet.source = destination /\ packet.destination = source]_vars

\* C10 amended: the first packet returned fixes the flow a <-> b, and every
\* packet returned from then on goes between the hosts of a and b, in either
\* direction, with the ports of a and b or without ports.
C10_OnlyTheLearnedHosts ==
    [][/\ LearnsTheFlow
       /\ (Accepting /\ FlowFixed)
            => /\ source' = source /\ destination' = destination
               /\ \/ OfEndpoint(packet.source, source)
                     /\ OfEndpoint(packet.destination, destination)
                  \/ OfEndpoint(packet.source, destination)
                     /\ OfEndpoint(packet.destination, source)]_vars

\* The flow A:1234 <-> B:80 was learned and a packet from B:80 to A:1234 was
\* returned after it.
C10_Witness ==
    /\ Returned
    /\ FlowFixed
    /\ source = SocketAddress(HostA, 1234)
    /\ destination = SocketAddress(HostB, 80)
    /\ packet.source = destination
    /\ packet.destination = source
    /\ ip_packet_count >= 2

\* The filter has an address for both ends, and a port for both when its
\* protocols leave room for TCP or UDP.
Specified ==
    /\ hasAddress(source)
    /\ hasAddress(destination)
    /\ (protocols = {} \/ protocols \cap {IP_SUBPROTO_TCP, IP_SUBPROTO_UDP} # {})
           => hasPort(source) /\ hasPort(destination)

\* A packet returned while wildcard is disallowed and the filter is not
\* specified gives the filter its addresses, swapped when it matched in the
\* reverse direction only.
LearnsOnAccept ==
    (Accepting /\ ~wildcard_filter /\ ~Specified)
        => IF Matches(packet.source, source) /\ Matches(packet.destination, destination)
           THEN source' = packet.source /\ destination' = packet.destination
           ELSE source' = packet.destination /\ destination' = packet.source

\* C11 as stated: the first packet returned teaches the filter its addresses,
\* and no later readIP changes the learned addresses.
C11_LearnedIsKept ==
    [][/\ LearnsOnAccept
       /\ (h_learned /\ h_learned')
            => source' = source /\ destination' = destination]_vars

\* C11 amended: the first packet returned teaches the filter its addresses,
\* and no later readIP changes the learned addresses once they are specified
\* (with ports, unless the protocols exclude TCP and UDP).
C11_LearnedIsKeptWhenSpecified ==
    [][/\ LearnsOnAccept
       /\ (h_learned /\ h_learned' /\ Specified)
            => source' = source /\ destination' = destination]_vars

\* A flow with ports was learned, and a packet without ports was returned
\* after it without changing the filter.
C11_Witness ==
    /\ Returned
    /\ h_learned
    /\ ~wildcard_filter
    /\ hasPort(source)
    /\ hasPort(destination)
    /\ ~hasPort(packet.source)
    /\ ip_packet_count >= 2

(***************************************************************************)
(* Claims about the blocks of the file, by what the capture tool wrote.    *)
(***************************************************************************)
\* A step of the loop of PcapFile::readIP that read a block.
ReadsBlock == pc = "file" /\ h_blocks' = h_blocks + 1

\* C12: a frame captured truncated, or whose payload does not parse as an IP
\* datagram, is skipped: it counts in packet_count and packets_size, not in
\* ip_packet_count, the error flag stays clear and the same readIP goes on
\* with the next block; and a datagram is only returned from a frame that was
\* captured whole and parsed as IP.
C12_BadFrameIsSkipped ==
    [][/\ (ReadsBlock /\ h_last'.kind \in {"truncated", "badip"})
            => /\ packet_count' = packet_count + 1
               /\ packets_size' > packets_size
               /\ ip_packet_count' = ip_packet_count
               /\ ~error'
               /\ pc' = "file"
               /\ packet' = NoPacket
       /\ (ReadsBlock /\ pc' = "idle" /\ ret')
            => h_last'.kind = "ip" /\ packet'.valid]_vars

C12_Witness ==
    /\ pc = "file"
    /\ h_last.kind = "badip"
    /\ packet_count >= 2
    /\ ip_packet_count = 0
    /\ packets_size > 0
    /\ ~error

\* The two total lengths of a pcap-ng block are those of a well-formed block.
WellFormed(b) == b.lead = b.trail /\ b.lead % 4 = 0 /\ b.lead >= 12

\* C13: a pcap-ng block is only accepted when its leading and trailing total
\* lengths are equal, a multiple of 4 and at least 12; a block that violates
\* one of these makes the read fail with the error flag set, and no frame is
\* returned or counted from it.
C13_BlockLengthsChecked ==
    [][(ReadsBlock /\ h_last'.lead > 0)
           => /\ ~error' => WellFormed(h_last')
              /\ ~WellFormed(h_last')
                     => /\ error'
                        /\ pc' = "idle" /\ ~ret'
                        /\ packet' = NoPacket
                        /\ ip_packet_count' = ip_packet_count
                        /\ packets_size' = packets_size]_vars

C13_Witness ==
    /\ ng
    /\ h_last.lead > 0
    /\ h_last.lead # h_last.trail
    /\ error
    /\ pc = "idle" /\ ~ret
    /\ h_blocks >= 2

\* A call of open() on a closed reader, for a file that exists.
OpensFile == pc = "idle" /\ ~in_open /\ h_opens' = h_opens + 1 /\ h_last'.hlen > 0

\* The table of the magics: format, endianness, time unit.
MagicRow(m, isNg, bigend, units) ==
    /\ h_last'.magic = m
    /\ ng' = isNg
    /\ ~isNg => be' = bigend /\ Len(ifs') = 1 /\ ifs'[1].time_units = units

\* C14: open() succeeds only on one of the five magics, and then the format,
\* the endianness and the time unit are those of the table; with any other
\* magic, or a header cut short, open() fails and the reader is not open.
C14_MagicTable ==
    [][OpensFile
          => /\ in_open' => \/ MagicRow(<<161, 178, 195, 212>>, FALSE, TRUE, 1000000)
                            \/ MagicRow(<<212, 195, 178, 161>>, FALSE, FALSE, 1000000)
                            \/ MagicRow(<<161, 178, 60, 77>>, FALSE, TRUE, 1000000000)
                            \/ MagicRow(<<77, 195, 178, 161>>, FALSE, FALSE, 1000000000)
                            \/ MagicRow(<<10, 13, 13, 10>>, TRUE, FALSE, 0)
             /\ (\/ h_last'.magic \notin {<<161, 178, 195, 212>>, <<212, 195, 178, 161>>,
                                          <<161, 178, 60, 77>>, <<77, 195, 178, 161>>,
                                          <<10, 13, 13, 10>>}
                 \/ h_last'.hlen < 24)
                   => ~in_open' /\ pc' = "idle"]_vars

C14_Witness ==
    /\ in_open
    /\ h_op = "open"
    /\ h_last.magic = <<77, 195, 178, 161>>
    /\ ~ng /\ ~be
    /\ ifs[1].time_units = 1000000000
    /\ h_opens = 2

\* C15: a pcap-ng packet block whose interface index designates no interface
\* described earlier in the current section yields no IP datagram and does
\* not set the error flag: the same readIP goes on with the next block.
C15_UnknownInterfacePassedOver ==
    [][(ReadsBlock /\ h_last'.kind = "orphan")
           => /\ packet' = NoPacket
              /\ ip_packet_count' = ip_packet_count
              /\ ~error'
              /\ pc' = "file"]_vars

C15_Witness ==
    /\ ng
    /\ pc = "file"
    /\ h_last.kind = "orphan"
    /\ Len(h_last.links) = 1
    /\ Len(ifs) = 1
    /\ ~error
    /\ ip_packet_count = 0

(***************************************************************************)
(* Claims about the conversion of the pcap-ng timestamps.                  *)
(***************************************************************************)
\* a div d^n.
RECURSIVE DivTimes(_, _, _)
DivTimes(a, d, n) == IF n = 0 THEN a ELSE DivSmall(DivTimes(a, d, n - 1), d)

\* floor(raw * 1000000 / units), for the units 10^resol or 2^(resol - 128).
FloorMicro(resol, raw) ==
    IF resol < 128 THEN DivTimes(MulSmall(raw, 1000000), 10, resol)
    ELSE DivTimes(MulSmall(raw, 1000000), 2, resol - 128)

Converted == conv.path # "none"

C17_NoOverflow == Converted => conv.fits

(***************************************************************************)
(* Claims about the timestamps of the reader.                              *)
(***************************************************************************)
\* The time units of a pcap file, by the first four bytes written.
UnitsOfMagic(m) ==
    IF m \in {<<161, 178, 195, 212>>, <<212, 195, 178, 161>>} THEN 1000000 ELSE 1000000000

\* readIP returns the datagram of a pcap record.
ReturnsRecord == ReadsBlock /\ ~ng /\ pc' = "idle" /\ ret'

\* C18: the timestamp reported for a pcap record is seconds * 1000000 +
\* (sub * 1000000) div time_units microseconds, time_units being 10^6 for the
\* microsecond magics and 10^9 for the nanosecond magics.
C18_PcapTimestamp ==
    [][ReturnsRecord
          => timestamp' = h_last'.sec * 1000000
                          + (h_last'.sub * 1000000) \div UnitsOfMagic(h_last'.magic)]_vars

\* The same with the time offset that the reader holds for interface 0.
C18_PcapTimestampWithOffset ==
    [][ReturnsRecord
          => timestamp' = h_last'.sec * 1000000
                          + (h_last'.sub * 1000000) \div UnitsOfMagic(h_last'.magic)
                          + ifs[1].time_offset]_vars

\* C19: timeOffset(ts) is max(0, ts - first_timestamp), never negative, here
\* for the timestamp of the packet that the filter examines.
C19_TimeOffsetNotNegative ==
    pc = "filter"
        => /\ timeOffset(timestamp) >= 0
           /\ timeOffset(timestamp) = IF timestamp - first_timestamp > 0
                                      THEN timestamp - first_timestamp ELSE 0

\* C20: on an interface of link type raw, a frame that is an IPv4 datagram
\* (first byte 0x45, high nibble 4) is taken as an IP candidate: readIP
\* returns it.
C20_RawDatagramAccepted ==
    [][(ReadsBlock /\ h_last'.kind = "ip" /\ h_last'.link = LINKTYPE_RAW)
           => pc' = "idle" /\ ret' /\ packet'.valid]_vars

(***************************************************************************)
(* Claims about decapsulation, errors and the life cycle of the reader.    *)
(***************************************************************************)
\* The VLAN stack that the tags t of a frame give: one entry per tag, outer
\* first, the EtherType that follows the tag and its 12-bit id.
StackOf(t) == [i \in 1 .. Len(t) |-> VLANId(t[i].next, t[i].id)]

\* C21: for an Ethernet frame with k nested VLAN tags followed by an IP
\* datagram, the VLAN stack returned with the datagram has exactly k entries,
\* outer first, entry i holding the 12-bit id of tag i and the EtherType that
\* follows tag i.
C21_VlanStackOfTags ==
    [][(ReadsBlock /\ pc' = "idle" /\ ret')
          => /\ Len(vlans') = Len(h_last'.tags)
             /\ vlans' = StackOf(h_last'.tags)]_vars

\* A datagram was returned from behind an 802.1ah tag and an 802.1Q tag.
C21_Witness ==
    /\ pc = "idle"
    /\ h_op = "readIP"
    /\ ret
    /\ packet.valid
    /\ Len(vlans) = 2
    /\ vlans = <<VLANId(33024, 837), VLANId(2048, 7)>>

\* The step on which PcapFilter::readIP returns false on a window end.
StopsOnWindowEnd == pc = "filter" /\ pc' = "idle" /\ ~ret'

\* C22: the filter never sets the error flag itself: when its readIP returns
\* false on a window-end condition while the reader has neither failed nor
\* reached the end of input, endOfFile() is still false.
C22_WindowEndIsNoError ==
    [][(StopsOnWindowEnd /\ ~error /\ ~eof) => (~error' /\ ~eof' /\ h_stop' # "none")]_vars

\* The filter stopped on the last packet number, and on a time bound, with
\* input left in a file that is open and not in error.
C22_Witness ==
    /\ pc = "idle"
    /\ h_op = "readIP"
    /\ ~ret
    /\ h_stop \in {"packet", "time"}
    /\ in_open
    /\ ~error
    /\ ~eof
    /\ packet_count >= 2

\* An iteration of the loop of PcapFile::readIP that finds the end of the
\* file at a block or record boundary; in the middle of a block or record.
EndsAtBoundary == pc = "file" /\ h_last'.kind = "end"
EndsInside == pc = "file" /\ h_last'.kind = "cut"

\* C23 as stated: the end of input exactly at a block or record boundary ends
\* the iteration without latching the error flag, whereas a short read in the
\* middle of a record or block latches it.
C23_BoundaryEndNotLatched ==
    [][/\ EndsAtBoundary => (pc' = "idle" /\ ~ret' /\ ~error')
       /\ EndsInside => (pc' = "idle" /\ ~ret' /\ error')]_vars

\* C23 amended: the end of input makes readIP return false and latches the
\* flag that endOfFile() returns, at a block or record boundary as in the
\* middle of a record or block, and the next readIP is refused on entry.
C23_EndOfInputLatches ==
    [][(EndsAtBoundary \/ EndsInside)
          => (pc' = "idle" /\ ~ret' /\ error' /\ eof' /\ packet' = NoPacket
              /\ ReadRefused')]_vars

\* The end of the file was found at a boundary, after two records or blocks
\* that were read whole.
C23_Witness ==
    /\ pc = "idle"
    /\ h_op = "readIP"
    /\ h_last.kind = "end"
    /\ h_blocks >= 2
    /\ in_open
    /\ error
    /\ ~ret

\* C24: close() changes nothing but the open state: the counters, the file
\* size, the size totals, the first and last timestamps and the error flag
\* keep the values they had just before it, and keep them on every step made
\* on the closed reader until the next open().
C24_CloseKeepsCounters ==
    [][(~in_open' /\ h_opens' = h_opens)
          => (counters' = counters /\ error' = error)]_vars

\* A readIP was refused on a reader closed after an end of file, with the
\* counters and timestamps of the file still there.
C24_Witness ==
    /\ ~in_open
    /\ h_op = "refused"
    /\ error
    /\ packet_count >= 2
    /\ ip_packet_count >= 1
    /\ file_size > 24
    /\ packets_size > ip_packets_size
    /\ first_timestamp >= 0
    /\ last_timestamp > first_timestamp

\* The step of a successful open().
OpensAgain == ~in_open /\ in_open' /\ h_opens' = h_opens + 1

\* C25: every successful open() of the filter starts from a clean state: the
\* addresses learned or set on the previous file are discarded, the effective
\* windows are those of the configured options, the protocol set is empty,
\* and the counters, the timestamps and the error flag of the reader are
\* reset, so that nothing of the filter remembers the packets read before.
C25_OpenStartsClean ==
    [][OpensAgain
          => /\ source' = AnySocketAddress
             /\ destination' = AnySocketAddress
             /\ ~bidirectional_filter'
             /\ wildcard_filter'
             /\ protocols' = {}
             /\ window' = WindowOf(opt')
             /\ opt' = opt
             /\ counters' = <<4 + 20, 0, 0, 0, 0, NoTimestamp, NoTimestamp>>
             /\ ~error'
             /\ ~eof']_vars

\* A second file was opened after a packet A -> B was returned from the first
\* one and another command line was loaded.
C25_Witness ==
    /\ h_opens = 2
    /\ h_op = "open"
    /\ in_open
    /\ packet.valid
    /\ ret
    /\ packet.source = SocketAddress(HostA, 1234)
    /\ source = AnySocketAddress
    /\ window.last_packet = 2
    /\ packet_count = 0

\* C26: the packet numbers (packetCount() at return) of the packets returned
\* by successive successful readIP calls on one open file are strictly
\* increasing, and the last of them is the packet number on return.
C26_PacketNumbersIncrease ==
    /\ \A i \in 1 .. Len(h_returned) - 1 : h_returned[i] < h_returned[i + 1]
    /\ (pc = "idle" /\ h_op = "readIP" /\ ret)
          => (h_returned # << >> /\ h_returned[Len(h_returned)] = packet_count)

\* Two packets were returned from one file, with a packet that was not
\* returned between them.
C26_Witness ==
    /\ pc = "idle"
    /\ h_op = "readIP"
    /\ ret
    /\ Len(h_returned) = 2
    /\ h_returned[2] > h_returned[1] + 1

\* C27: an Interface-Description block whose option list is truncated, or
\* whose body is shorter than 8 bytes, makes readIP fail, latches the error
\* flag and adds no interface; a block whose options are whole adds one
\* interface, an unknown option tag being skipped.
C27_InterfaceOptionsChecked ==
    [][/\ (ReadsBlock /\ h_last'.kind = "badinterface")
            => (pc' = "idle" /\ ~ret' /\ error' /\ ifs' = ifs)
       /\ (ReadsBlock /\ h_last'.kind = "interface")
            => /\ ~error'
               /\ pc' = "file"
               /\ Len(ifs') = Len(ifs) + 1
               /\ SubSeq(ifs', 1, Len(ifs)) = ifs
               /\ ifs'[Len(ifs')].link_type = h_last'.link
               /\ h_last'.lead = 40 => ifs'[Len(ifs')].time_offset = -1000000]_vars

\* A second interface was added from a block of 40 bytes, the one with the
\* unknown option before if_tsoffset.
C27_Witness ==
    /\ pc = "file"
    /\ ~error
    /\ h_last.kind = "interface"
    /\ h_last.lead = 40
    /\ Len(ifs) = 2
    /\ ifs[2].time_offset = -1000000
    /\ ifs[1].time_offset = 0

\* C28: operations called in the wrong state fail and change nothing: open()
\* on a reader that is already open returns false and leaves the open state,
\* the counters, the timestamps, the error flag and the filter as they were;
\* readIP on a reader that is not open returns false without setting the
\* error flag or changing any counter.
C28_WrongStateChangesNothing ==
    [][/\ (in_open /\ h_opens' = h_opens + 1)
            => (~h_ok' /\ fileVars' = fileVars /\ filterVars' = filterVars)
       /\ (~in_open /\ pc = "idle" /\ h_opens' = h_opens /\ h_op' \notin {"loadArgs", "set"})
            => (pc' = "idle" /\ ~ret' /\ packet' = NoPacket
                /\ fileVars' = fileVars /\ filterVars' = filterVars)]_vars

\* open() was refused on a reader that is open, has read packets and holds
\* addresses learned from a packet.
C28_Witness ==
    /\ h_op = "open"
    /\ ~h_ok
    /\ in_open
    /\ h_opens = 2
    /\ packet_count >= 2
    /\ h_learned
    /\ hasPort(source)
    /\ ~error

(***************************************************************************)
(* Properties of the TLV connection (specification SpecTlv).               *)
(***************************************************************************)
\* An iteration of the loop of receiveMessage that receives an invalid
\* message; receiveMessage disconnects because of the invalid messages.
IterationOnInvalid ==
    rpc = "loop" /\ h_conn'.received = h_conn.received + 1 /\ h_conn'.last = "invalid"
DisconnectsForInvalid ==
    connected /\ ~connected' /\ rpc' = "idle" /\ ~rret' /\ h_conn'.cause = "invalid"

C30_OneResponsePerInvalid ==
    [][/\ (rpc = "loop" /\ rpc' = "idle" /\ rret')
            => /\ h_conn'.last = "valid"
               /\ h_conn'.received = h_conn.received + 1
               /\ h_conn'.responses = IF auto_error_response THEN h_conn'.invalid ELSE 0
       /\ (IterationOnInvalid /\ rpc' = "loop")
            => /\ h_conn'.responses
                    = h_conn.responses + (IF auto_error_response THEN 1 ELSE 0)
               /\ connected']_vars

\* A valid message was returned after two invalid ones, both answered.
C30_Witness ==
    /\ rpc = "idle"
    /\ rret
    /\ auto_error_response
    /\ h_conn.cause = "valid"
    /\ h_conn.invalid = 2
    /\ h_conn.responses = 2

(***************************************************************************)
(* Claims about sections, counters, descriptors and termination.           *)
(***************************************************************************)
\* The interfaces of the reader are those described since the last section
\* header, with their link types.
InterfacesOfSection(table, links) ==
    /\ Len(table) = Len(links)
    /\ \A i \in 1 .. Len(table) : table[i].link_type = links[i]

\* C31: a Section-Header block met while iterating a pcap-ng file restarts the
\* section: the endianness is the one of the byte-order magic of that block
\* and the interface table becomes empty, so that a datagram is only returned
\* through an interface described after the last Section-Header; an unknown
\* byte-order magic makes the read fail and latches the error flag.
C31_SectionRestarts ==
    [][/\ (ReadsBlock /\ h_last'.kind = "section")
            => /\ be' = (h_last'.orders[Len(h_last'.orders)] = "big")
               /\ ifs' = << >>
               /\ ng'
               /\ ~error'
               /\ pc' = "file"
       /\ (ReadsBlock /\ h_last'.kind = "badsection")
            => /\ error'
               /\ pc' = "idle" /\ ~ret'
               /\ be' = be /\ ifs' = ifs
       /\ (ReadsBlock /\ ng)
            => /\ InterfacesOfSection(ifs', h_last'.links)
               /\ (pc' = "idle" /\ ret') => h_last'.kind = "ip"]_vars

\* A datagram was returned from the big-endian section that follows a
\* little-endian file header, through the interface described in that section.
C31_Witness ==
    /\ ng /\ be
    /\ pc = "idle" /\ ret
    /\ h_last.orders = <<"little", "big">>
    /\ h_last.kind = "ip"
    /\ h_blocks = 3
    /\ Len(ifs) = 1
    /\ packet.valid

\* C32: after a pcap file was read until readIP met the end of the input at
\* a record boundary, packet_count is the number of records of the file.
C32_CountIsRecordsAtEnd ==
    (~ng /\ h_last.kind = "end") => packet_count = h_frames

\* C33: after a successful open() of a pcap file the single interface
\* descriptor depends only on the header of that file: its time offset is zero
\* and the timestamp returned is the one of the record, whatever file the
\* reader had opened before.
C33_PcapDescriptorFromHeader ==
    (in_open /\ ~ng)
        => /\ Len(ifs) = 1
           /\ ifs[1].time_offset = 0
           /\ (pc = "idle" /\ ret /\ h_op = "readIP")
                  => timestamp = h_last.sec * 1000000 + (h_last.sub * 1000000) \div ifs[1].time_units

\* C34: with no time option configured the time predicates reject nothing: a
\* datagram without timestamp that passes the other predicates is returned by
\* the readIP of the filter.
C34_UntimedIsReturned ==
    [][(pc = "filter" /\ timestamp = NoTimestamp /\ window = WindowOf(DefaultOptions))
           => (pc' = "idle" /\ ret' /\ packet' = packet)]_vars

\* C35: readIP, with or without the filter, always returns on a finite input:
\* every iteration of the loop of PcapFile::readIP returns or consumes a block
\* or record of the file, every PcapFile::readIP that was entered returns, and
\* every readIP of the filter returns.
C35_ReadIPReturns ==
    /\ [][pc = "file"
             => \/ pc' # "file"
                \/ h_blocks' = h_blocks + 1 /\ file_size' > file_size]_vars
    /\ (pc = "file") ~> (pc # "file")
    /\ (pc # "idle") ~> (pc = "idle")

\* A readIP of the filter returned false at the end of a file of three
\* blocks, after a datagram that the filter dropped.
C35_Witness ==
    /\ pc = "idle" /\ ~ret
    /\ h_op = "readIP"
    /\ eof
    /\ h_blocks = MaxBlocks
    /\ ip_packet_count >= 1
    /\ h_returned = << >>

\* C37: for a pcap file of either byte order, the link type of the interface
\* descriptor is the low 16 bits of the 32-bit link-type field of the header,
\* read in the byte order of the file: an Ethernet capture is Ethernet in both.
C37_PcapLinkType ==
    (in_open /\ ~ng) => ifs[1].link_type = h_last.hlink

====
